---- MODULE Spec2Model ----
(***************************************************************************)
(* A model of screwdb's copy-on-write prefix B+tree (btree.c).             *)
(*                                                                         *)
(* A page is modelled by its header fields (pgno, flags, lower, upper) and *)
(* the node records its slot array points to, in slot order.  A key or a   *)
(* value is a sequence of bytes.  An in-memory page (struct mpage) is a    *)
(* heap object named by an id; 0 is the NULL pointer.  The file is the     *)
(* sequence of its pages, file[pgno + 1].                                  *)
(*                                                                         *)
(* Every C function that changes state is an operator from a handle state  *)
(* s to a handle state; its return value is left in s.r and its status in  *)
(* s.rc (and s.errno).                                                     *)
(***************************************************************************)
EXTENDS Integers, Sequences, FiniteSets, TLC

VARIABLES
  disk,   \* the database file and its advisory lock
  bt,     \* struct btree of the process under study (with its page heap)
  peer,   \* struct btree of a second process that has the same file open
  hist,   \* history: reference maps, last call and its result
  pc      \* position of the process inside btree_txn_commit

vars == <<disk, bt, peer, hist, pc>>

\* A call of a function of btree.c is written Do("f", <<arguments>>).
RECURSIVE Do(_, _)

\* The value v under the name that F gives it.
With(v, F(_)) == F(v)

---------------------------------------------------------------------------
(* Program constants *)

PSIZE == 64
BT_MINKEYS == 4
MAXKEYSIZE == 255
\* 0xFFFFFFFF in the source, the largest pgno_t; the largest integer of the
\* model checker stands for it.
P_INVALID == 2147483647
P_BRANCH == 1
P_LEAF == 2
P_OVERFLOW == 4
P_META == 8
P_HEAD == 16
F_BIGDATA == 1
BT_TOMBSTONE == 1
\* 64 in the source; scaled as the page size is, so that a commit of three
\* pages takes two rounds of its loop.
BT_COMMIT_PAGES == 2
BT_MAXCACHE_DEF == 1024
FILL_THRESHOLD == 250
PAGEHDRSZ == 12
NODESIZE == 7
SZ_INDX == 2
SZ_PGNO == 4
BT_FAIL == -1
BT_SUCCESS == 0

F_ISSET(w, f) == (w \div f) % 2 = 1

MINIMUM(a, b) == IF a < b THEN a ELSE b

U16(x) == x % 65536

NULL == 0

\* The value an unsigned int wraps to below zero.
UINT_MAX == P_INVALID

---------------------------------------------------------------------------
(* Byte strings *)

Take(q, n) == SubSeq(q, 1, n)
Drop(q, n) == SubSeq(q, n + 1, Len(q))

SetMin(S) == CHOOSE x \in S : \A y \in S : x <= y

memcmp(s1, s2, n) ==
  LET m == MINIMUM(n, MINIMUM(Len(s1), Len(s2)))
      D == {i \in 1..m : s1[i] # s2[i]}
  IN  IF D = {} THEN 0
      ELSE IF s1[SetMin(D)] < s2[SetMin(D)] THEN -1 ELSE 1

memncmp(s1, s2) ==
  IF Len(s1) < Len(s2) /\ memcmp(s1, s2, Len(s1)) = 0 THEN -1
  ELSE IF Len(s1) > Len(s2) /\ memcmp(s1, s2, Len(s2)) = 0 THEN 1
  ELSE memcmp(s1, s2, Len(s1))

btree_cmp(a, b) == memncmp(a, b)

\* Length of the longest common prefix of min and max; the result is taken
\* from max.  Empty as soon as one of them is empty.
common_prefix(min, max) ==
  IF Len(min) = 0 \/ Len(max) = 0 THEN <<>>
  ELSE LET m == MINIMUM(Len(min), Len(max))
           D == {i \in 1..m : min[i] # max[i]}
           n == IF D = {} THEN m ELSE SetMin(D) - 1
       IN  Take(max, n)

\* key->size -= pfxlen; key->data += pfxlen.  The size is a size_t: a pfxlen
\* beyond the key's length wraps and the key then reads bytes it does not
\* own (BadKey stands for such a key).
BadKey == <<-1>>
IsBad(key) == key = BadKey

remove_prefix(key, pfxlen) ==
  IF pfxlen = 0 THEN key
  ELSE IF IsBad(key) \/ pfxlen < 0 \/ pfxlen > Len(key) THEN BadKey
  ELSE Drop(key, pfxlen)

concat_prefix(s1, s2) == IF IsBad(s1) \/ IsBad(s2) THEN BadKey ELSE s1 \o s2

\* bt_cmp compares key1 without its first Len(pfx) bytes against the stored
\* node key; it does not look at those first bytes.
bt_cmp(key1, key2, pfx) ==
  IF Len(pfx) > Len(key1) \/ IsBad(key2) THEN 1
  ELSE memncmp(Drop(key1, Len(pfx)), key2)

---------------------------------------------------------------------------
(* Pages *)

IS_LEAF(p) == F_ISSET(p.flags, P_LEAF)
IS_BRANCH(p) == F_ISSET(p.flags, P_BRANCH)
IS_OVERFLOW(p) == F_ISSET(p.flags, P_OVERFLOW)

NUMKEYSP(p) == (p.lower - PAGEHDRSZ) \div 2
SIZELEFTP(p) == U16(p.upper - p.lower)
PAGEFILLP(p) == (1000 * (PSIZE - PAGEHDRSZ - SIZELEFTP(p))) \div (PSIZE - PAGEHDRSZ)

\* A slot that was never written, or that lies beyond NUMKEYS.
GarbageNode == [p |-> 0, key |-> BadKey, flags |-> 0, data |-> <<>>]

NODEPTRP(p, i) ==
  IF i >= 0 /\ i < Len(p.nodes) THEN p.nodes[i + 1] ELSE GarbageNode

NoMeta == [flags |-> 0, root |-> P_INVALID, prev_meta |-> 0, branch_pages |-> 0,
           leaf_pages |-> 0, overflow_pages |-> 0, revisions |-> 0,
           depth |-> 0, entries |-> 0, hash |-> <<>>]

EmptyPage(pgno, flags) ==
  [pgno |-> pgno, flags |-> flags, lower |-> PAGEHDRSZ, upper |-> PSIZE,
   nodes |-> <<>>, next |-> 0, odata |-> <<>>, meta |-> NoMeta]

\* A btval: size bytes at data.  For a node flagged F_BIGDATA data holds the
\* overflow page number and size is the size of the value.
Val(bytes) == [size |-> Len(bytes), data |-> bytes]

LEAFSIZE(key, data) == NODESIZE + Len(key) + data.size
INDXSIZE(key) == NODESIZE + Len(key)

\* A bt_leaf_size that counts every value as stored in the leaf.
leaf_size_inline(key, data) == LEAFSIZE(key, data) + SZ_INDX

bt_leaf_size(key, data) ==
  LET sz == LEAFSIZE(key, data)
  IN  (IF data.size >= PSIZE \div BT_MINKEYS
       THEN sz - (data.size - SZ_PGNO) ELSE sz) + SZ_INDX

bt_branch_size(key) == INDXSIZE(key) + SZ_INDX

---------------------------------------------------------------------------
(* The handle state: struct btree, its page heap, the file it has open *)

NoTxn == [null |-> TRUE, root |-> P_INVALID, next_pgno |-> 0,
          dirty_queue |-> <<>>, rdonly |-> FALSE, error |-> FALSE]

Fail(s, e) == [s EXCEPT !.rc = BT_FAIL, !.errno = e]
Ok(s) == [s EXCEPT !.rc = BT_SUCCESS]
Ret(s, v) == [s EXCEPT !.r = v]
Ub(s, what) == [s EXCEPT !.ub = @ \cup {what}]
Ev(s, what) == [s EXCEPT !.ev = @ \cup {what}]

\* A freed or never allocated struct mpage, as a read through a dangling
\* pointer sees it.
FreedMp == [pgno |-> P_INVALID, parent |-> NULL, parent_index |-> 0, prefix |-> <<>>,
            ref |-> 0, dirty |-> 0, page |-> EmptyPage(P_INVALID, 0)]

Live(s, id) == id \in DOMAIN s.heap
MP(s, id) == IF Live(s, id) THEN s.heap[id] ELSE FreedMp
PG(s, id) == MP(s, id).page
NUMKEYS(s, id) == NUMKEYSP(PG(s, id))
SIZELEFT(s, id) == SIZELEFTP(PG(s, id))
PAGEFILL(s, id) == PAGEFILLP(PG(s, id))
NODEPTR(s, id, i) == NODEPTRP(PG(s, id), i)

SetMp(s, id, mp) ==
  IF Live(s, id) THEN [s EXCEPT !.heap[id] = mp] ELSE Ub(s, "use-after-free in SetMp")
SetPage(s, id, p) ==
  IF Live(s, id) THEN [s EXCEPT !.heap[id].page = p] ELSE Ub(s, "use-after-free in SetPage")

SeqRemove(q, x) == SelectSeq(q, LAMBDA y : y # x)

FileSize(s) == Len(s.file) * PSIZE + s.pad

mpage_lookup(s, pgno) ==
  IF pgno \in DOMAIN s.cache
  THEN LET mp == s.cache[pgno]
       IN  [s EXCEPT !.lru = Append(SeqRemove(@, mp), mp), !.r = mp]
  ELSE Ret(s, NULL)

mpage_add(s, mp) ==
  [s EXCEPT !.cache = IF MP(s, mp).pgno \in DOMAIN @ THEN @
                      ELSE @ @@ (MP(s, mp).pgno :> mp),
            !.cache_size = @ + 1,
            !.lru = Append(@, mp)]

mpage_free(s, mp) ==
  IF mp = NULL THEN s
  ELSE [s EXCEPT !.heap = [i \in DOMAIN @ \ {mp} |-> @[i]]]

\* RB_REMOVE takes an element of the tree.  A page that mpage_add did not
\* insert, because the tree held another page under its number, is none:
\* its removal rewires the tree through links that are not the tree's.
mpage_del(s, mp) ==
  LET s1 == [s EXCEPT !.cache = [q \in {x \in DOMAIN @ : @[x] # mp} |-> @[q]],
                      !.cache_size = @ - 1,
                      !.lru = SeqRemove(@, mp)]
  IN  IF \E q \in DOMAIN s.cache : s.cache[q] = mp THEN s1
      ELSE Ub(s1, "RB_REMOVE of a page that is not in the page cache")

NewMp(s, mp) ==
  [s EXCEPT !.heap = @ @@ (s.nextid :> mp), !.nextid = @ + 1, !.r = s.nextid]

mpage_copy(s, mp) ==
  NewMp(s, [pgno |-> MP(s, mp).pgno, parent |-> MP(s, mp).parent,
            parent_index |-> MP(s, mp).parent_index, prefix |-> MP(s, mp).prefix,
            ref |-> 0, dirty |-> 0, page |-> MP(s, mp).page])

mpage_prune_from(s, q) ==
  IF q = <<>> \/ s.cache_size <= s.max_cache THEN s
  ELSE LET mp == Head(q)
       IN  IF MP(s, mp).dirty = 0 /\ MP(s, mp).ref <= 0
           THEN Do("mpage_prune_from", <<Do("mpage_free", <<Do("mpage_del", <<s, mp>>), mp>>), Tail(q)>>)
           ELSE Do("mpage_prune_from", <<s, Tail(q)>>)

\* An mpage_prune that leaves the page cache as it is.
prune_nothing(s) == s

mpage_prune(s) == Do("mpage_prune_from", <<s, s.lru>>)

mpage_dirty(s, mp) ==
  IF MP(s, mp).dirty = 0
  THEN [s EXCEPT !.heap[mp].dirty = 1,
                 !.txn.dirty_queue = Append(@, mp)]
  ELSE s

\* Rewrites the child pointer of node indx of page mp.
SetNodePgno(s, mp, indx, pgno) ==
  IF ~Live(s, mp) THEN Ub(s, "use-after-free in SetNodePgno")
  ELSE IF indx >= NUMKEYS(s, mp) THEN Ub(s, "node-index in SetNodePgno")
  ELSE [s EXCEPT !.heap[mp].page.nodes[indx + 1].p = pgno]

\* An mpage_touch that dirties the cached page where it is.
touch_in_place(s, mp0) == Ret(Do("mpage_dirty", <<s, mp0>>), mp0)

\* An mpage_touch that renames a page under a cursor as it does a page
\* that nothing holds.
touch_pinned_in_place(s, mp0) ==
  IF MP(s, mp0).dirty # 0 THEN Ret(s, mp0)
  ELSE With(Ret(Do("mpage_del", <<s, mp0>>), mp0), LAMBDA s1 :
       LET mp == s1.r
           pg == s1.txn.next_pgno
           s2 == [s1 EXCEPT !.heap[mp].pgno = pg, !.heap[mp].page.pgno = pg,
                            !.txn.next_pgno = @ + 1]
       IN  With(Do("mpage_add", <<Do("mpage_dirty", <<s2, mp>>), mp>>), LAMBDA s3 :
       LET s4 == IF MP(s3, mp).parent # NULL
                 THEN SetNodePgno(s3, MP(s3, mp).parent, MP(s3, mp).parent_index, pg)
                 ELSE s3
       IN  Ret(s4, mp)))

mpage_touch(s, mp0) ==
  IF MP(s, mp0).dirty # 0 THEN Ret(s, mp0)
  ELSE With(IF MP(s, mp0).ref = 0 THEN Ret(Do("mpage_del", <<s, mp0>>), mp0)
            ELSE Do("mpage_copy", <<s, mp0>>), LAMBDA s1 :
       LET mp == s1.r
           pg == s1.txn.next_pgno
           s2 == [s1 EXCEPT !.heap[mp].pgno = pg, !.heap[mp].page.pgno = pg,
                            !.txn.next_pgno = @ + 1]
       IN  With(Do("mpage_add", <<Do("mpage_dirty", <<s2, mp>>), mp>>), LAMBDA s3 :
       LET s4 == IF MP(s3, mp).parent # NULL
                 THEN SetNodePgno(s3, MP(s3, mp).parent, MP(s3, mp).parent_index, pg)
                 ELSE s3
       IN  Ret(s4, mp)))

btree_read_page(s, pgno) ==
  IF pgno >= Len(s.file)
  THEN IF pgno = Len(s.file) /\ s.pad > 0 THEN Fail(s, "EINVAL") ELSE Fail(s, "ENOENT")
  ELSE IF s.file[pgno + 1].pgno # pgno THEN Fail(s, "EINVAL")
  ELSE Ret(Ok(s), s.file[pgno + 1])

\* A btree_sync that does not reach the disk.
sync_nothing(s) == s

\* fsync: what the file holds will outlast a crash.  The model opens no
\* handle with BT_NOSYNC.
btree_sync(s) == [s EXCEPT !.synced = Len(s.file)]

btree_get_mpage(s, pgno) ==
  LET s1 == Do("mpage_lookup", <<s, pgno>>)
  IN  IF s1.r # NULL THEN s1
      ELSE LET s2 == Do("btree_read_page", <<s1, pgno>>)
           IN  IF s2.rc # BT_SUCCESS THEN Ret(s2, NULL)
               ELSE LET s3 == NewMp(s2, [pgno |-> pgno, parent |-> NULL,
                                         parent_index |-> 0, prefix |-> <<>>,
                                         ref |-> 0, dirty |-> 0, page |-> s2.r])
                    IN  Ret(Do("mpage_add", <<s3, s3.r>>), s3.r)

btree_new_page(s, flags) ==
  LET pg == s.txn.next_pgno
  IN  With(NewMp([s EXCEPT !.txn.next_pgno = @ + 1],
                 [pgno |-> pg, parent |-> NULL, parent_index |-> 0, prefix |-> <<>>,
                  ref |-> 0, dirty |-> 0, page |-> EmptyPage(pg, flags)]), LAMBDA s1 :
  LET mp == s1.r
      s2 == IF F_ISSET(flags, P_BRANCH) THEN [s1 EXCEPT !.meta.branch_pages = @ + 1]
            ELSE IF F_ISSET(flags, P_LEAF) THEN [s1 EXCEPT !.meta.leaf_pages = @ + 1]
            ELSE IF F_ISSET(flags, P_OVERFLOW) THEN [s1 EXCEPT !.meta.overflow_pages = @ + 1]
            ELSE s1
  IN  Ret(Do("mpage_dirty", <<Do("mpage_add", <<s2, mp>>), mp>>), mp))

---------------------------------------------------------------------------
(* Meta pages *)

\* SHA256 over the meta body without its hash field, as an injective image
\* of the hashed fields.  created_at is left out of the model.
MetaHash(m) == <<m.flags, m.root, m.prev_meta, m.branch_pages, m.leaf_pages,
                 m.overflow_pages, m.revisions, m.depth, m.entries>>

IoOk == "ok"

\* write(fd, page, psize) on the O_APPEND descriptor; a failing write leaves
\* the file as it is.
AppendPages(s, pages, io) ==
  IF io # IoOk THEN Fail(s, "EIO")
  ELSE IF s.pad # 0 THEN Ok(Ev([s EXCEPT !.file = Append(@, s.tail) \o pages,
                                          !.pad = 0], "misaligned-append"))
  ELSE Ok([s EXCEPT !.file = @ \o pages])

btree_write_meta(s, root, flags, io) ==
  LET s1 == Do("btree_new_page", <<s, P_META>>)
      mp == s1.r
  IN  With([s1.meta EXCEPT !.prev_meta = s1.meta.root, !.root = root,
                           !.flags = flags, !.revisions = @ + 1], LAMBDA m1 :
  LET m2 == [m1 EXCEPT !.hash = MetaHash(m1)]
  IN  With([EmptyPage(MP(s1, mp).pgno, P_META) EXCEPT !.meta = m2], LAMBDA pg :
  LET s2 == [s1 EXCEPT !.meta = m2, !.heap[mp].page = pg]
  IN  With(AppendPages(s2, <<pg>>, io), LAMBDA s3 :
  With([s3 EXCEPT !.heap[mp].dirty = 0,
                  !.txn.dirty_queue = IF @ = <<>> THEN @ ELSE Tail(@)], LAMBDA s4 :
  IF s3.rc # BT_SUCCESS THEN Fail(s4, "EIO")
  ELSE Ok([s4 EXCEPT !.size = FileSize(s4)])))))

btree_is_meta_page(p) ==
  /\ F_ISSET(p.flags, P_META)
  /\ ~(p.meta.root >= p.pgno /\ p.meta.root # P_INVALID)
  /\ MetaHash(p.meta) = p.meta.hash

\* A scan that looks at the file's last page only.
scan_last_page(s, meta_pgno) ==
  IF meta_pgno <= 0 THEN Ret(Fail(s, "EIO"), P_INVALID)
  ELSE LET s1 == Do("btree_get_mpage", <<s, meta_pgno>>)
       IN  IF s1.r = NULL THEN Ret(Fail(s1, "EIO"), P_INVALID)
           ELSE IF btree_is_meta_page(PG(s1, s1.r))
           THEN IF F_ISSET(PG(s1, s1.r).meta.flags, BT_TOMBSTONE)
                THEN Ret(Fail(s1, "ESTALE"), s.r)
                ELSE Ret(Ok([s1 EXCEPT !.meta = PG(s1, s1.r).meta]), s.r)
           ELSE Ret(Fail(s1, "EIO"), P_INVALID)

read_meta_scan(s, meta_pgno) ==
  IF meta_pgno <= 0 THEN Ret(Fail(s, "EIO"), P_INVALID)
  ELSE LET s1 == Do("btree_get_mpage", <<s, meta_pgno>>)
       IN  IF s1.r = NULL THEN Ret(Fail(s1, "EIO"), P_INVALID)
           ELSE IF btree_is_meta_page(PG(s1, s1.r))
           THEN IF F_ISSET(PG(s1, s1.r).meta.flags, BT_TOMBSTONE)
                THEN Ret(Fail(s1, "ESTALE"), s.r)
                ELSE Ret(Ok([s1 EXCEPT !.meta = PG(s1, s1.r).meta]), s.r)
           ELSE Do("read_meta_scan", <<Ret(s1, s.r), meta_pgno - 1>>)

\* btree_read_meta that takes an unchanged file size as no news at all.
read_meta_same_size_ok(s) ==
  LET size == FileSize(s)
      next_pgno == size \div PSIZE
      fix == size % PSIZE # 0
      s1 == [s EXCEPT !.fixpadding = @ \/ fix,
                      !.r = IF fix THEN next_pgno + 1 ELSE next_pgno]
  IN  IF size < s.size THEN Ret(Fail(s, "EIO"), P_INVALID)
      ELSE IF size = PSIZE THEN Ret(Ok(s), 1)
      ELSE IF next_pgno = 0 THEN Ret(Fail(s, "EIO"), P_INVALID)
      ELSE IF size = s.size THEN Ok(s1)
      ELSE Do("read_meta_scan", <<[s1 EXCEPT !.size = size], next_pgno - 1>>)

\* s.r is *p_next on return.
btree_read_meta(s) ==
  LET size == FileSize(s)
      next_pgno == size \div PSIZE
      fix == size % PSIZE # 0
      s1 == [s EXCEPT !.fixpadding = @ \/ fix,
                      !.r = IF fix THEN next_pgno + 1 ELSE next_pgno]
  IN  IF size < s.size THEN Ret(Fail(s, "EIO"), P_INVALID)
      ELSE IF size = PSIZE THEN Ret(Ok(s), 1)
      ELSE IF next_pgno = 0 THEN Ret(Fail(s, "EIO"), P_INVALID)
      ELSE IF size = s.size
      THEN IF F_ISSET(s.meta.flags, BT_TOMBSTONE) THEN Fail(s1, "ESTALE") ELSE Ok(s1)
      ELSE Do("read_meta_scan", <<[s1 EXCEPT !.size = size], next_pgno - 1>>)

---------------------------------------------------------------------------
(* Transactions.  A transaction argument t is "null" (no transaction),     *)
(* "w" (the handle's write transaction, bt->txn) or "r" (the read-only     *)
(* transaction s.rtxn).                                                    *)

TxnOf(s, t) == IF t = "w" THEN s.txn ELSE IF t = "r" THEN s.rtxn ELSE NoTxn

btree_close(s) == [s EXCEPT !.ref = @ - 1]

\* A btree_txn_abort that forgets the queue and leaves its pages where
\* they are.
keep_dirty(s) == [s EXCEPT !.txn.dirty_queue = <<>>]

discard_dirty(s) ==
  IF s.txn.dirty_queue = <<>> THEN s
  ELSE LET mp == Head(s.txn.dirty_queue)
           s1 == Do("mpage_del", <<s, mp>>)
           s2 == [s1 EXCEPT !.txn.dirty_queue = Tail(@)]
       IN  Do("discard_dirty", <<Do("mpage_free", <<s2, mp>>)>>)

\* A btree_txn_abort that keeps the write transaction in bt->txn.
abort_keeps_slot(s, t) ==
  IF TxnOf(s, t).null THEN s
  ELSE IF t = "r" THEN Do("btree_close", <<[s EXCEPT !.rtxn = NoTxn]>>)
  ELSE Do("btree_close", <<Do("discard_dirty", <<s>>)>>)

btree_txn_abort(s, t) ==
  IF TxnOf(s, t).null THEN s
  ELSE IF t = "r" THEN Do("btree_close", <<[s EXCEPT !.rtxn = NoTxn]>>)
  ELSE LET s1 == Do("discard_dirty", <<s>>)
       IN  Do("btree_close", <<[s1 EXCEPT !.txn = NoTxn,
                                  !.lock = IF @ = s.me THEN "" ELSE @]>>)

\* btree_txn_begin without its two EBUSY exits.
begin_without_busy(s, rdonly) ==
  LET t == IF rdonly THEN "r" ELSE "w"
      new == [NoTxn EXCEPT !.null = FALSE, !.rdonly = rdonly]
      s1 == IF rdonly THEN [s EXCEPT !.rtxn = new, !.ref = @ + 1]
            ELSE [s EXCEPT !.txn = new, !.lock = s.me, !.ref = @ + 1]
  IN  With(Do("btree_read_meta", <<s1>>), LAMBDA s2 :
      IF s2.rc # BT_SUCCESS
      THEN Ret(Fail(Do("btree_txn_abort", <<s2, t>>), s2.errno), "null")
      ELSE IF rdonly
      THEN Ret(Ok([s2 EXCEPT !.rtxn.next_pgno = s2.r, !.rtxn.root = s2.meta.root]), t)
      ELSE Ret(Ok([s2 EXCEPT !.txn.next_pgno = s2.r, !.txn.root = s2.meta.root]), t))

\* On success s.r names the new transaction ("w" or "r"); on failure it is
\* "null".
btree_txn_begin(s, rdonly) ==
  IF ~rdonly /\ ~s.txn.null THEN Ret(Fail(s, "EBUSY"), "null")
  ELSE IF ~rdonly /\ s.lock \notin {"", s.me} THEN Ret(Fail(s, "EBUSY"), "null")
  ELSE LET t == IF rdonly THEN "r" ELSE "w"
           new == [NoTxn EXCEPT !.null = FALSE, !.rdonly = rdonly]
           s1 == IF rdonly THEN [s EXCEPT !.rtxn = new, !.ref = @ + 1]
                 ELSE [s EXCEPT !.txn = new, !.lock = s.me, !.ref = @ + 1]
       IN  With(Do("btree_read_meta", <<s1>>), LAMBDA s2 :
       LET s3 == IF rdonly
                 THEN [s2 EXCEPT !.rtxn.next_pgno = s2.r, !.rtxn.root = s2.meta.root]
                 ELSE [s2 EXCEPT !.txn.next_pgno = s2.r, !.txn.root = s2.meta.root]
       IN  IF s2.rc # BT_SUCCESS
           THEN Ret(Fail(Do("btree_txn_abort", <<s2, t>>), s2.errno), "null")
           ELSE Ret(Ok(s3), t))

\* A page that holds nothing the program wrote as a page.
GarbagePage == EmptyPage(P_INVALID, 0)

\* The meta body lies at the front of its page, well before the page's last
\* byte: a tail that lacks only that byte has the body whole.
TailIsMeta(s) == s.pad = PSIZE - 1 /\ F_ISSET(s.tail.flags, P_META)

\* The torn page as it reads once zeros fill it: the page number at its
\* front is whole, the rest is no page unless it is a meta body.
PaddedTail(s) ==
  IF TailIsMeta(s) THEN s.tail ELSE [GarbagePage EXCEPT !.pgno = s.tail.pgno]

\* The steps of btree_txn_commit, in the order of its system calls.
\* ftruncate rounds the size up to the next page boundary, a whole page up
\* when the size is on a boundary already; the new bytes are zero.
commit_fixpadding(s, io) ==
  IF ~s.fixpadding THEN Ok(s)
  ELSE IF io # IoOk THEN Fail(s, "EIO")
  ELSE Ok([s EXCEPT !.file = Append(@, PaddedTail(s)),
                    !.pad = 0, !.tail = GarbagePage, !.fixpadding = FALSE])

clear_dirty(s, n) ==
  IF n = 0 \/ s.txn.dirty_queue = <<>> THEN s
  ELSE Do("clear_dirty", <<[s EXCEPT !.heap[Head(s.txn.dirty_queue)].dirty = 0,
                             !.txn.dirty_queue = Tail(@)], n - 1>>)

\* One round of the writev loop: up to BT_COMMIT_PAGES pages.
commit_write_batch(s, io) ==
  LET n == MINIMUM(Len(s.txn.dirty_queue), BT_COMMIT_PAGES)
      pages == [i \in 1..n |-> PG(s, s.txn.dirty_queue[i])]
      s1 == AppendPages(s, pages, io)
  IN  IF n = 0 THEN Ok(s)
      ELSE IF s1.rc # BT_SUCCESS THEN s1
      ELSE Ok(Do("clear_dirty", <<s1, n>>))

commit_write_all(s, io) ==
  LET s1 == Do("commit_write_batch", <<s, io>>)
  IN  IF s1.rc # BT_SUCCESS \/ s1.txn.dirty_queue = <<>> THEN s1
      ELSE Do("commit_write_all", <<s1, io>>)

---------------------------------------------------------------------------
(* Nodes on a page *)

InsertAt(q, i, x) == SubSeq(q, 1, i) \o <<x>> \o SubSeq(q, i + 1, Len(q))
RemoveAt(q, i) == SubSeq(q, 1, i) \o SubSeq(q, i + 2, Len(q))

btree_write_overflow_data(s, ofp, bytes) ==
  LET max == PSIZE - PAGEHDRSZ
  IN  IF Len(bytes) = 0 THEN Ok(s)
      ELSE IF Len(bytes) > max
      THEN LET s1 == Do("btree_new_page", <<s, P_OVERFLOW>>)
               next == s1.r
               s2 == [s1 EXCEPT !.heap[ofp].page.next = MP(s1, next).pgno,
                                !.heap[ofp].page.odata = Take(bytes, max)]
           IN  Do("btree_write_overflow_data", <<s2, next, Drop(bytes, max)>>)
      ELSE Ok([s EXCEPT !.heap[ofp].page.next = 0,
                        !.heap[ofp].page.odata = bytes])

\* Key prefix should already be stripped.  key = <<>> stands for a NULL key.
btree_add_node(s, mp, indx, key, data, pgno, flags) ==
  LET leaf == IS_LEAF(PG(s, mp))
      big == leaf /\ ~F_ISSET(flags, F_BIGDATA) /\ data.size >= PSIZE \div BT_MINKEYS
  IN  With(NODESIZE + Len(key) +
           (IF ~leaf THEN 0
            ELSE IF F_ISSET(flags, F_BIGDATA) \/ big THEN SZ_PGNO
            ELSE data.size), LAMBDA node_size :
  With(IF big THEN Do("btree_new_page", <<s, P_OVERFLOW>>) ELSE Ret(s, NULL), LAMBDA s1 :
  LET ofp == s1.r
      nflags == IF big THEN flags + F_BIGDATA ELSE flags
  IN  With([p |-> IF leaf THEN data.size ELSE pgno,
            key |-> key,
            flags |-> nflags,
            data |-> IF ~leaf THEN <<>>
                     ELSE IF ofp # NULL THEN <<MP(s1, ofp).pgno>>
                     ELSE data.data], LAMBDA node :
  With([s1 EXCEPT !.heap[mp].page.nodes = InsertAt(@, indx, node),
                  !.heap[mp].page.upper = @ - node_size,
                  !.heap[mp].page.lower = @ + SZ_INDX], LAMBDA s2 :
  IF IsBad(key) THEN Fail(Ub(s1, "bad-key in btree_add_node"), "EINVAL")
  ELSE IF ~Live(s, mp) THEN Fail(Ub(s1, "use-after-free in btree_add_node"), "EINVAL")
  ELSE IF node_size + SZ_INDX > SIZELEFT(s1, mp) THEN Fail(s1, s1.errno)
  ELSE IF indx > NUMKEYS(s1, mp) THEN Fail(Ub(s1, "node-index in btree_add_node"), "EINVAL")
  ELSE IF ofp # NULL THEN Do("btree_write_overflow_data", <<s2, ofp, data.data>>)
  ELSE Ok(s2)))))

NodeBytes(p, node) ==
  NODESIZE + Len(node.key) +
  (IF ~IS_LEAF(p) THEN 0
   ELSE IF F_ISSET(node.flags, F_BIGDATA) THEN SZ_PGNO ELSE node.p)

btree_del_node(s, mp, indx) ==
  IF ~Live(s, mp) THEN Ub(s, "use-after-free in btree_del_node")
  ELSE IF indx >= NUMKEYS(s, mp) THEN Ub(s, "node-index in btree_del_node")
  ELSE [s EXCEPT !.heap[mp].page.nodes = RemoveAt(@, indx),
                 !.heap[mp].page.lower = @ - SZ_INDX,
                 !.heap[mp].page.upper = @ + NodeBytes(PG(s, mp), NODEPTR(s, mp, indx))]

btree_update_key(s, mp, indx, key) ==
  LET node == NODEPTR(s, mp, indx)
      delta == Len(key) - Len(node.key)
  IN  IF ~Live(s, mp) THEN Fail(Ub(s, "use-after-free in btree_update_key"), "EINVAL")
      ELSE IF indx >= NUMKEYS(s, mp) THEN Fail(Ub(s, "node-index in btree_update_key"), "EINVAL")
      ELSE IF IsBad(key) THEN Fail(Ub(s, "bad-key in btree_update_key"), "EINVAL")
      ELSE IF delta > 0 /\ SIZELEFT(s, mp) < delta THEN Fail(s, s.errno)
      ELSE Ok([s EXCEPT !.heap[mp].page.nodes[indx + 1].key = key,
                        !.heap[mp].page.upper = @ - delta])

\* The key node i of page src gets when the page's prefix grows by delta
\* bytes (delta > 0) or shrinks by -delta bytes (delta < 0): the bytes put
\* back are the last -delta bytes of src->prefix as it is at the call.
AdjustedKey(prefix, key, delta) ==
  IF delta > 0
  THEN IF delta > Len(key) THEN BadKey ELSE Drop(key, delta)
  ELSE IF -delta > Len(prefix) THEN BadKey
  ELSE SubSeq(prefix, Len(prefix) + delta + 1, Len(prefix)) \o key

\* The loop of btree_adjust_prefix from node i on.  It starts at node 0 of
\* branch pages too: the key of that node has no bytes, so with delta > 0
\* tmpkey.len wraps and the memmove reads and writes out of bounds.
adjust_prefix_from(s, src, delta, i) ==
  IF i >= NUMKEYS(s, src) THEN Ok(s)
  ELSE LET key == AdjustedKey(MP(s, src).prefix, NODEPTR(s, src, i).key, delta)
           s0 == IF IsBad(key) /\ i = 0 /\ IS_BRANCH(PG(s, src))
                 THEN Ub(s, "slot 0 of a branch page in btree_adjust_prefix") ELSE s
       IN  With(Do("btree_update_key", <<s0, src, i, key>>), LAMBDA s1 :
       IF s1.rc # BT_SUCCESS THEN Fail(s1, s1.errno)
       ELSE Do("adjust_prefix_from", <<s1, src, delta, i + 1>>))

btree_adjust_prefix(s, src, delta) == Do("adjust_prefix_from", <<s, src, delta, 0>>)

---------------------------------------------------------------------------
(* Prefixes *)

expand_prefix(s, mp, indx) ==
  concat_prefix(MP(s, mp).prefix, NODEPTR(s, mp, indx).key)

\* The page whose parent holds the lower bracket of mp: the first page on
\* the way up with parent_index > 0 (or the root).
LowerBracketPage(s, lp) ==
  IF MP(s, lp).parent = NULL \/ MP(s, lp).parent_index > 0 THEN lp
  ELSE Do("LowerBracketPage", <<s, MP(s, lp).parent>>)

UpperBracketPage(s, up) ==
  IF MP(s, up).parent = NULL
     \/ MP(s, up).parent_index + 1 < NUMKEYS(s, MP(s, up).parent) THEN up
  ELSE Do("UpperBracketPage", <<s, MP(s, up).parent>>)

\* The value find_common_prefix leaves in mp->prefix.
CommonPrefixOf(s, mp) ==
  LET lp == Do("LowerBracketPage", <<s, mp>>)
      up == Do("UpperBracketPage", <<s, mp>>)
  IN  IF MP(s, lp).parent # NULL /\ MP(s, up).parent # NULL
      THEN common_prefix(Do("expand_prefix", <<s, MP(s, lp).parent, MP(s, lp).parent_index>>),
                         Do("expand_prefix", <<s, MP(s, up).parent, MP(s, up).parent_index + 1>>))
      ELSE IF MP(s, mp).parent # NULL THEN MP(s, MP(s, mp).parent).prefix
      ELSE <<>>

\* Every struct mpage on the parent chain of mp is still allocated.
ChainLive(s, mp) ==
  mp = NULL \/ (Live(s, mp) /\ Do("ChainLive", <<s, s.heap[mp].parent>>))

\* A find_common_prefix that finds no prefix.
no_common_prefix(s, mp) == [s EXCEPT !.heap[mp].prefix = <<>>]

find_common_prefix(s, mp) ==
  LET pfx == CommonPrefixOf(s, mp)
  IN  IF ~Do("ChainLive", <<s, mp>>) THEN Ub(s, "use-after-free in find_common_prefix")
      ELSE IF IsBad(pfx) THEN Ub([s EXCEPT !.heap[mp].prefix = <<>>], "node-index in find_common_prefix")
      ELSE [s EXCEPT !.heap[mp].prefix = pfx]

---------------------------------------------------------------------------
(* Search *)

\* The binary search of btree_search_node: <<i, rc>> when the loop ends.
RECURSIVE BinSearch(_, _, _, _, _, _, _)
BinSearch(p, pfx, key, low, high, i, rc) ==
  IF low > high THEN <<i, rc>>
  ELSE LET m == (low + high) \div 2
           c == bt_cmp(key, NODEPTRP(p, m).key, pfx)
       IN  IF c = 0 THEN <<m, 0>>
           ELSE IF c > 0 THEN BinSearch(p, pfx, key, m + 1, high, m, c)
           ELSE BinSearch(p, pfx, key, low, m - 1, m, c)

\* [null, exact, ki]: null when there is no entry larger or equal to key.
btree_search_node(s, mp, key) ==
  LET p == PG(s, mp)
  IN  With(BinSearch(p, MP(s, mp).prefix, key,
                     IF IS_LEAF(p) THEN 0 ELSE 1, NUMKEYSP(p) - 1, 0, 0), LAMBDA b :
  LET i == IF b[2] > 0 THEN b[1] + 1 ELSE b[1]
  IN  IF b[2] > 0 /\ i >= NUMKEYSP(p)
      THEN [null |-> TRUE, exact |-> FALSE, ki |-> 0]
      ELSE [null |-> FALSE, exact |-> (b[2] = 0), ki |-> i])

cursor_push_page(s, mp) ==
  [s EXCEPT !.heap[mp].ref = @ + 1,
            !.cur.stack = <<[mpage |-> mp, ki |-> 0]>> \o @]

cursor_pop_page(s) ==
  LET top == Head(s.cur.stack)
      s1 == [s EXCEPT !.cur.stack = Tail(@)]
  IN  IF Live(s, top.mpage) THEN [s1 EXCEPT !.heap[top.mpage].ref = @ - 1]
      ELSE Ub(s1, "use-after-free in cursor_pop_page")

cursor_clear(s) == IF s.cur.stack = <<>> THEN s ELSE Do("cursor_clear", <<Do("cursor_pop_page", <<s>>)>>)

\* key = <<>> is the NULL key (descend to the lowest page); cursor tells
\* whether the handle's cursor is passed.  s.r is *mpp on success.
search_descend(s, mp, key, cursor, modify) ==
  IF ~IS_BRANCH(PG(s, mp))
  THEN IF IS_LEAF(PG(s, mp)) THEN Ret(Ok(s), mp) ELSE Fail(s, s.errno)
  ELSE LET f == Do("btree_search_node", <<s, mp, key>>)
       IN  With(IF key = <<>> THEN 0
                ELSE IF f.null THEN NUMKEYS(s, mp) - 1
                ELSE IF ~f.exact THEN f.ki - 1
                ELSE f.ki, LAMBDA i :
       LET s0 == IF i < 0 \/ i >= NUMKEYS(s, mp) THEN Ub(s, "node-index in search_descend") ELSE s
       IN  With(IF cursor THEN [s0 EXCEPT !.cur.stack[1].ki = i] ELSE s0, LAMBDA s1 :
       LET s2 == Do("btree_get_mpage", <<s1, NODEPTR(s1, mp, i).p>>)
           child == s2.r
       IN  With(Do("find_common_prefix", <<[s2 EXCEPT !.heap[child].parent = mp,
                                              !.heap[child].parent_index = i], child>>), LAMBDA s3 :
       With(IF cursor THEN Do("cursor_push_page", <<s3, child>>) ELSE s3, LAMBDA s4 :
       With(IF modify THEN Do("mpage_touch", <<s4, child>>) ELSE Ret(s4, child), LAMBDA s5 :
       IF child = NULL THEN Fail(s2, s2.errno)
       ELSE Do("search_descend", <<s5, s5.r, key, cursor, modify>>))))))

btree_search_page_root(s, root, key, cursor, modify) ==
  Do("search_descend", <<IF cursor THEN Do("cursor_push_page", <<s, root>>) ELSE s,
                 root, key, cursor, modify>>)

btree_search_page(s, t, key, cursor, modify) ==
  IF t = "null" /\ modify THEN Fail(s, "EINVAL")
  ELSE LET s1 == IF t = "null" THEN Do("btree_read_meta", <<s>>) ELSE Ok(s)
       IN  With(IF t = "null" THEN s1.meta.root ELSE TxnOf(s1, t).root, LAMBDA root :
       LET s2 == Do("btree_get_mpage", <<s1, root>>)
       IN  With(IF modify /\ MP(s2, s2.r).dirty = 0
                THEN LET s4 == Do("mpage_touch", <<s2, s2.r>>)
                     IN  [s4 EXCEPT !.txn.root = MP(s4, s4.r).pgno]
                ELSE s2, LAMBDA s3 :
       IF s1.rc # BT_SUCCESS THEN s1
       ELSE IF t # "null" /\ TxnOf(s1, t).error THEN Fail(s1, "EINVAL")
       ELSE IF root = P_INVALID THEN Fail(s1, "ENOENT")
       ELSE IF s2.r = NULL THEN Fail(s2, s2.errno)
       ELSE Do("btree_search_page_root", <<s3, s3.r, key, cursor, modify>>)))

\* The bytes of an overflow chain; BadKey when the chain is broken.
read_overflow(s, pgno, left) ==
  IF left <= 0 THEN Ret(Ok(s), <<>>)
  ELSE LET s1 == Do("btree_get_mpage", <<s, pgno>>)
           omp == s1.r
           psz == MINIMUM(left, PSIZE - PAGEHDRSZ)
       IN  With(Do("read_overflow", <<s1, PG(s1, omp).next, left - psz>>), LAMBDA s2 :
       IF omp = NULL THEN Ret(Fail(s1, s1.errno), BadKey)
       ELSE IF ~IS_OVERFLOW(PG(s1, omp))
       THEN Ret(Fail(Do("mpage_free", <<s1, omp>>), "EINVAL"), BadKey)
       ELSE IF s2.rc # BT_SUCCESS THEN s2
       ELSE Ret(s2, Take(PG(s1, omp).odata, psz) \o s2.r))

\* mp = NULL asks for a copy; otherwise inline data borrows the page (ref++).
\* s.r is the value read.
btree_read_data(s, mp, leaf) ==
  IF ~F_ISSET(leaf.flags, F_BIGDATA)
  THEN IF leaf.p > 0 /\ mp # NULL
       THEN Ret(Ok([s EXCEPT !.heap[mp].ref = @ + 1]), leaf.data)
       ELSE Ret(Ok(s), leaf.data)
  ELSE Do("read_overflow", <<s, leaf.data[1], leaf.p>>)

\* s.r is the full key of the node; with an empty prefix the key borrows
\* the page (ref++).
bt_set_key(s, mp, node, wantkey) ==
  IF ~wantkey THEN s
  ELSE IF Len(MP(s, mp).prefix) > 0
  THEN Ret(s, concat_prefix(MP(s, mp).prefix, node.key))
  ELSE Ret([s EXCEPT !.heap[mp].ref = @ + 1], node.key)

\* On success s.r is the value.
btree_txn_get(s, t, key) ==
  IF Len(key) = 0 \/ Len(key) > MAXKEYSIZE THEN Fail(s, "EINVAL")
  ELSE LET s1 == Do("btree_search_page", <<s, t, key, FALSE, FALSE>>)
           mp == s1.r
           f == Do("btree_search_node", <<s1, mp, key>>)
           s2 == IF ~f.null /\ f.exact
                 THEN Do("btree_read_data", <<IF f.ki >= NUMKEYS(s1, mp)
                                      THEN Ub(s1, "node-index in btree_txn_get") ELSE s1,
                                      mp, NODEPTR(s1, mp, f.ki)>>)
                 ELSE Fail(s1, "ENOENT")
       IN  IF s1.rc # BT_SUCCESS THEN s1 ELSE Do("mpage_prune", <<s2>>)

---------------------------------------------------------------------------
(* Cursors.  A handle has one cursor, s.cur; its stack has the top first. *)

NoCursor == [open |-> FALSE, txn |-> "null", stack |-> <<>>,
             initialized |-> FALSE, eof |-> FALSE]

btree_txn_cursor_open(s, t) ==
  [s EXCEPT !.cur = [NoCursor EXCEPT !.open = TRUE, !.txn = t], !.ref = @ + 1]

btree_cursor_close(s) ==
  IF ~s.cur.open THEN s
  ELSE Do("btree_close", <<[Do("cursor_clear", <<s>>) EXCEPT !.cur = NoCursor]>>)

btree_sibling(s, move_right) ==
  IF Len(s.cur.stack) < 2 THEN Fail(s, "ENOENT")
  ELSE LET s1 == Do("cursor_pop_page", <<s>>)
           par == s1.cur.stack[1]
           up == IF move_right THEN par.ki + 1 >= NUMKEYS(s1, par.mpage)
                 ELSE par.ki = 0
       IN  With(IF up THEN Do("btree_sibling", <<s1, move_right>>)
                ELSE Ok([s1 EXCEPT !.cur.stack[1].ki =
                                      IF move_right THEN @ + 1 ELSE @ - 1]), LAMBDA s2 :
       LET parent == s2.cur.stack[1]
       IN  With(Do("btree_get_mpage", <<IF parent.ki >= NUMKEYS(s2, parent.mpage)
                                THEN Ub(s2, "node-index in btree_sibling") ELSE s2,
                                NODEPTR(s2, parent.mpage, parent.ki).p>>), LAMBDA s3 :
       LET mp == s3.r
           s4 == [s3 EXCEPT !.heap[mp].parent = parent.mpage,
                            !.heap[mp].parent_index = parent.ki]
       IN  IF s2.rc # BT_SUCCESS THEN s2
           ELSE IF mp = NULL THEN Fail(s3, s3.errno)
           ELSE Ok(Do("find_common_prefix", <<Do("cursor_push_page", <<s4, mp>>), mp>>))))

\* The tail shared by cursor_next, cursor_set and cursor_first: read the
\* data and the key of node ki of page mp.  s.r is [key, data].
cursor_read(s, mp, ki) ==
  LET leaf == NODEPTR(s, mp, ki)
      s0 == IF ki >= NUMKEYS(s, mp) THEN Ub(s, "node-index in cursor_read") ELSE s
  IN  With(Do("btree_read_data", <<s0, mp, leaf>>), LAMBDA s1 :
  LET s2 == Do("bt_set_key", <<s1, mp, leaf, TRUE>>)
  IN  IF s1.rc # BT_SUCCESS THEN s1
      ELSE Ret(Ok(s2), [key |-> s2.r, data |-> s1.r]))

btree_cursor_next(s) ==
  IF s.cur.eof THEN Fail(s, "ENOENT")
  ELSE IF s.cur.stack = <<>> THEN Fail(Ub(s, "null-deref"), "EINVAL")
  ELSE LET top == s.cur.stack[1]
       IN  With(IF top.ki + 1 >= NUMKEYS(s, top.mpage) THEN Do("btree_sibling", <<s, TRUE>>)
                ELSE Ok([s EXCEPT !.cur.stack[1].ki = @ + 1]), LAMBDA s1 :
       IF s1.rc # BT_SUCCESS THEN [s1 EXCEPT !.cur.eof = TRUE]
       ELSE Do("cursor_read", <<s1, s1.cur.stack[1].mpage, s1.cur.stack[1].ki>>))

\* exact tells whether exactp is given (BT_CURSOR_EXACT).
\* btree_cursor_set that stops at the leaf the search ends in.
cursor_set_in_leaf(s, key, exact) ==
  LET s1 == Do("btree_search_page", <<s, s.cur.txn, key, TRUE, FALSE>>)
      mp == s1.r
  IN  With(Do("btree_search_node", <<s1, mp, key>>), LAMBDA f :
  With(IF f.null THEN s1 ELSE [s1 EXCEPT !.cur.stack[1].ki = f.ki], LAMBDA s2 :
  With([s2 EXCEPT !.cur.initialized = TRUE, !.cur.eof = FALSE], LAMBDA s5 :
  IF s1.rc # BT_SUCCESS THEN s1
  ELSE IF exact /\ (f.null \/ ~f.exact) THEN Fail(s2, "ENOENT")
  ELSE IF f.null THEN Fail(s2, "ENOENT")
  ELSE Do("cursor_read", <<s5, s5.cur.stack[1].mpage, s5.cur.stack[1].ki>>))))

btree_cursor_set(s, key, exact) ==
  LET s1 == Do("btree_search_page", <<s, s.cur.txn, key, TRUE, FALSE>>)
      mp == s1.r
  IN  With(Do("btree_search_node", <<s1, mp, key>>), LAMBDA f :
  With(IF f.null THEN s1 ELSE [s1 EXCEPT !.cur.stack[1].ki = f.ki], LAMBDA s2 :
  LET s3 == IF f.null THEN Do("btree_sibling", <<s2, TRUE>>) ELSE Ok(s2)
      s4 == IF f.null THEN [s3 EXCEPT !.cur.stack[1].ki = 0] ELSE s3
  IN  With([s4 EXCEPT !.cur.initialized = TRUE, !.cur.eof = FALSE], LAMBDA s5 :
  IF s1.rc # BT_SUCCESS THEN s1
  ELSE IF exact /\ (f.null \/ ~f.exact) THEN Fail(s2, "ENOENT")
  ELSE IF s3.rc # BT_SUCCESS THEN s3
  ELSE Do("cursor_read", <<s5, s5.cur.stack[1].mpage, s5.cur.stack[1].ki>>))))

btree_cursor_first(s) ==
  LET s1 == Do("btree_search_page", <<s, s.cur.txn, <<>>, TRUE, FALSE>>)
      s2 == [s1 EXCEPT !.cur.initialized = TRUE, !.cur.eof = FALSE]
  IN  IF s1.rc # BT_SUCCESS THEN s1 ELSE Do("cursor_read", <<s2, s1.r, 0>>)

\* op is "BT_CURSOR", "BT_CURSOR_EXACT", "BT_NEXT" or "BT_FIRST".
btree_cursor_get(s, key, op) ==
  Do("mpage_prune", <<
    IF op \in {"BT_CURSOR", "BT_CURSOR_EXACT"}
    THEN LET s1 == Do("cursor_clear", <<s>>)
         IN  IF Len(key) = 0 \/ Len(key) > MAXKEYSIZE THEN Fail(s1, "EINVAL")
             ELSE Do("btree_cursor_set", <<s1, key, op = "BT_CURSOR_EXACT">>)
    ELSE IF op = "BT_NEXT"
    THEN IF ~s.cur.initialized THEN Do("btree_cursor_first", <<s>>) ELSE Do("btree_cursor_next", <<s>>)
    ELSE IF op = "BT_FIRST" THEN Do("btree_cursor_first", <<Do("cursor_clear", <<s>>)>>)
    ELSE Fail(s, s.errno)>>)

---------------------------------------------------------------------------
(* Split *)

\* The byte bt_reduce_separator reads at offset n of a key; past the key's
\* end it reads bytes that belong to something else (never equal here).
ByteAt(key, n, other) == IF n < Len(key) THEN key[n + 1] ELSE other

RECURSIVE ReduceLen(_, _, _)
ReduceLen(min, sep, n) ==
  IF ByteAt(min, n, -2) # ByteAt(sep, n, -3) THEN n
  ELSE IF n + 1 = Len(min) \/ n + 1 = Len(sep) THEN n + 1
  ELSE ReduceLen(min, sep, n + 1)

\* The separator shortened to the minimum length that tells it from min.
bt_reduce_separator(min, sep) ==
  LET n == ReduceLen(min, sep, 0)
  IN  IF IsBad(min) \/ IsBad(sep) \/ n + 1 > Len(sep) THEN BadKey
      ELSE Take(sep, n + 1)

\* The re-insertion loop of btree_split.  c holds the loop's constants,
\* res the values of *mpp and *newindxp.
split_loop(s, c, i, j, ins_new, res) ==
  LET nk == NUMKEYSP(c.copy)
      right == i >= c.split_indx
      j1 == IF i = c.split_indx THEN (IF i = c.newindx /\ ins_new THEN 1 ELSE 0) ELSE j
      p == IF right THEN c.pright ELSE c.mp
      new == i = c.newindx /\ ~ins_new
      node == NODEPTRP(c.copy, i)
      rkey == IF new THEN c.newkey ELSE node.key
      pfx_diff == IF new THEN Len(MP(s, p).prefix)
                  ELSE IF right THEN c.right_pfx_diff ELSE c.left_pfx_diff
      rdata == IF new THEN c.newdata ELSE [size |-> node.p, data |-> node.data]
      pgno == IF new THEN c.newpgno ELSE node.p
      flags == IF new THEN 0 ELSE node.flags
      key == IF ~c.leaf /\ j1 = 0 THEN <<>> ELSE remove_prefix(rkey, pfx_diff)
  IN  With(Do("btree_add_node", <<s, p, j1, key, rdata, pgno, flags>>), LAMBDA s1 :
  LET s2 == IF s1.rc # BT_SUCCESS THEN Ev(s1, "split-add-failed") ELSE s1
  IN  IF i > nk \/ (~new /\ i = nk) THEN Ret(s, res)
      ELSE Do("split_loop", <<s2, c, IF new THEN i ELSE i + 1, j1 + 1, ins_new \/ new,
                      IF new THEN [mp |-> p, indx |-> j1] ELSE res>>))

\* s.r is [mp, indx]: the page and index the new entry went to.
btree_split(s, mp, newindx, newkey, newdata, newpgno) ==
  LET orig_pfx_len == Len(MP(s, mp).prefix)
      leaf == IS_LEAF(PG(s, mp))
  IN  With(IF MP(s, mp).parent # NULL THEN Ok(s)
           ELSE LET a == Do("btree_new_page", <<s, P_BRANCH>>)
                IN  With([a EXCEPT !.heap[mp].parent = a.r,
                                   !.heap[mp].parent_index = 0,
                                   !.txn.root = MP(a, a.r).pgno,
                                   !.meta.depth = @ + 1], LAMBDA b :
                Do("btree_add_node", <<b, a.r, 0, <<>>, Val(<<>>), MP(b, mp).pgno, 0>>)), LAMBDA sA :
  LET sB == Do("btree_new_page", <<sA, PG(sA, mp).flags>>)
      pright == sB.r
      copy == PG(sB, mp)
  IN  With([sB EXCEPT !.heap[pright].parent = MP(sB, mp).parent,
                      !.heap[pright].parent_index = MP(sB, mp).parent_index + 1,
                      !.heap[mp].page.nodes = <<>>,
                      !.heap[mp].page.lower = PAGEHDRSZ,
                      !.heap[mp].page.upper = PSIZE], LAMBDA sC :
  LET split_indx == NUMKEYSP(copy) \div 2 + 1
  IN  With(IF newindx = split_indx THEN remove_prefix(newkey, orig_pfx_len)
           ELSE NODEPTRP(copy, split_indx).key, LAMBDA sep0 :
  With(NODEPTRP(copy, split_indx - 1).key, LAMBDA min :
  LET sep1 == IF leaf THEN Do("bt_reduce_separator", <<min, sep0>>) ELSE sep0
  IN  With(concat_prefix(MP(sC, mp).prefix, sep1), LAMBDA sepkey :
  With(IF IsBad(sep0) THEN Ub(sC, "node-index in btree_split")
       ELSE IF leaf /\ (Len(min) = 0 \/ Len(sep0) = 0 \/ IsBad(sep1))
       THEN Ub(sC, "separator-overread")
       ELSE sC, LAMBDA sC1 :
  LET parent == MP(sC1, pright).parent
  IN  With(IF SIZELEFT(sC1, parent) < bt_branch_size(sepkey)
           THEN With(Do("btree_split", <<sC1, parent, MP(sC1, pright).parent_index,
                                 sepkey, Val(<<>>), MP(sC1, pright).pgno>>), LAMBDA r :
                LET r1 == [r EXCEPT !.heap[pright].parent = r.r.mp,
                                    !.heap[pright].parent_index = r.r.indx]
                IN  IF r.rc # BT_SUCCESS THEN r
                    ELSE IF MP(r1, pright).parent # MP(r1, mp).parent
                       /\ MP(r1, mp).parent_index >= NUMKEYS(r1, MP(r1, mp).parent)
                    THEN [r1 EXCEPT !.heap[mp].parent = MP(r1, pright).parent,
                                    !.heap[mp].parent_index =
                                       IF MP(r1, pright).parent_index = 0
                                       THEN UINT_MAX
                                       ELSE MP(r1, pright).parent_index - 1]
                    ELSE r1)
           ELSE Do("btree_add_node", <<sC1, parent, MP(sC1, pright).parent_index,
                               remove_prefix(sepkey, Len(MP(sC1, parent).prefix)),
                               Val(<<>>), MP(sC1, pright).pgno, 0>>), LAMBDA sD :
  With(Do("find_common_prefix", <<Do("find_common_prefix", <<sD, pright>>), mp>>), LAMBDA sE :
  LET c == [mp |-> mp, pright |-> pright, copy |-> copy, split_indx |-> split_indx,
            newindx |-> newindx, newkey |-> newkey, newdata |-> newdata,
            newpgno |-> newpgno, leaf |-> leaf,
            right_pfx_diff |-> Len(MP(sE, pright).prefix) - orig_pfx_len,
            left_pfx_diff |-> Len(MP(sE, mp).prefix) - orig_pfx_len]
  IN  IF sA.rc # BT_SUCCESS THEN Fail(sA, sA.errno)
      ELSE IF sD.rc # BT_SUCCESS THEN Fail(sD, sD.errno)
      ELSE Do("split_loop", <<Ok(sE), c, 0, 0, FALSE, [mp |-> mp, indx |-> newindx]>>)))))))))

---------------------------------------------------------------------------
(* Commit and put *)

\* The checks of btree_txn_commit without the test of BT_TXN_ERROR.
commit_check_unmarked(s, t) ==
  IF TxnOf(s, t).rdonly THEN Ret(Fail(Do("btree_txn_abort", <<s, t>>), "EPERM"), "fail")
  ELSE IF t # "w" THEN Ret(Fail(Do("btree_txn_abort", <<s, t>>), "EINVAL"), "fail")
  ELSE IF s.txn.dirty_queue = <<>> THEN Ret(Ok(s), "done")
  ELSE Ret(Ok(s), "write")

\* The checks btree_txn_commit makes before it writes; s.r tells whether
\* the commit goes on to write ("write"), is done ("done") or has failed.
commit_check(s, t) ==
  IF TxnOf(s, t).rdonly THEN Ret(Fail(Do("btree_txn_abort", <<s, t>>), "EPERM"), "fail")
  ELSE IF t # "w" THEN Ret(Fail(Do("btree_txn_abort", <<s, t>>), "EINVAL"), "fail")
  ELSE IF s.txn.error THEN Ret(Fail(Do("btree_txn_abort", <<s, t>>), "EINVAL"), "fail")
  ELSE IF s.txn.dirty_queue = <<>> THEN Ret(Ok(s), "done")
  ELSE Ret(Ok(s), "write")

\* Padding and the writev loop; on failure the transaction is aborted.
commit_data(s, io) ==
  LET s1 == Do("commit_fixpadding", <<s, io.pad>>)
      s2 == Do("commit_write_all", <<s1, io.data>>)
  IN  IF s1.rc # BT_SUCCESS THEN Fail(Do("btree_txn_abort", <<s1, "w">>), "EIO")
      ELSE IF s2.rc # BT_SUCCESS THEN Fail(Do("btree_txn_abort", <<s2, "w">>), "EIO")
      ELSE s2

commit_meta(s, io) ==
  LET s1 == Do("btree_write_meta", <<Do("btree_sync", <<s>>), s.txn.root, 0, io.meta>>)
  IN  IF s1.rc # BT_SUCCESS THEN Fail(Do("btree_txn_abort", <<s1, "w">>), "EIO")
      ELSE Do("btree_sync", <<s1>>)

commit_done(s) == Ok(Do("btree_txn_abort", <<Do("mpage_prune", <<s>>), "w">>))

\* io gives the outcome of each system call of the commit.
btree_txn_commit(s, t, io) ==
  LET s1 == Do("commit_check", <<s, t>>)
      s2 == Do("commit_data", <<s1, io>>)
      s3 == Do("commit_meta", <<s2, io>>)
  IN  IF s1.r = "fail" THEN s1
      ELSE IF s1.r = "done" THEN Do("commit_done", <<s1>>)
      ELSE IF s2.rc # BT_SUCCESS THEN s2
      ELSE IF s3.rc # BT_SUCCESS THEN s3
      ELSE Do("commit_done", <<s3>>)

AllOk == [pad |-> IoOk, data |-> IoOk, meta |-> IoOk]

\* A put that leaves the node of an equal key where it is.
put_tree_keep_old(s, key, data) ==
  LET s1 == Do("btree_search_page", <<s, "w", key, FALSE, TRUE>>)
  IN  With(Do("btree_search_node", <<s1, s1.r, key>>), LAMBDA f :
  With(s1, LAMBDA s2 :
  LET ki2 == IF f.null THEN NUMKEYS(s2, s1.r) ELSE f.ki
      n == Do("btree_new_page", <<s1, P_LEAF>>)
      s3 == [n EXCEPT !.txn.root = MP(n, n.r).pgno, !.meta.depth = @ + 1]
      found == s1.rc = BT_SUCCESS
  IN  With(IF found THEN s2 ELSE s3, LAMBDA sx :
  With(IF found THEN s1.r ELSE n.r, LAMBDA mp :
  With(IF found THEN ki2 ELSE 0, LAMBDA ki :
  With(IF SIZELEFT(sx, mp) < bt_leaf_size(key, data)
       THEN Do("btree_split", <<sx, mp, ki, key, data, P_INVALID>>)
       ELSE Do("btree_add_node", <<sx, mp, ki, remove_prefix(key, Len(MP(sx, mp).prefix)),
                           data, 0, 0>>), LAMBDA s4 :
  IF ~found /\ s1.errno # "ENOENT" THEN s1
  ELSE IF s4.rc # BT_SUCCESS THEN Fail([s4 EXCEPT !.txn.error = TRUE], s4.errno)
  ELSE Ok([s4 EXCEPT !.meta.entries = @ + 1])))))))

\* The body of btree_txn_put between the begin and the commit of the
\* transaction: the change of the tree under transaction "w".
put_tree(s, key, data) ==
  LET s1 == Do("btree_search_page", <<s, "w", key, FALSE, TRUE>>)
  IN  With(Do("btree_search_node", <<s1, s1.r, key>>), LAMBDA f :
  With(IF ~f.null /\ f.exact THEN Do("btree_del_node", <<s1, s1.r, f.ki>>) ELSE s1, LAMBDA s2 :
  LET ki2 == IF f.null THEN NUMKEYS(s2, s1.r) ELSE f.ki
      n == Do("btree_new_page", <<s1, P_LEAF>>)
      s3 == [n EXCEPT !.txn.root = MP(n, n.r).pgno, !.meta.depth = @ + 1]
      found == s1.rc = BT_SUCCESS
  IN  With(IF found THEN s2 ELSE s3, LAMBDA sx :
  With(IF found THEN s1.r ELSE n.r, LAMBDA mp :
  With(IF found THEN ki2 ELSE 0, LAMBDA ki :
  With(IF SIZELEFT(sx, mp) < bt_leaf_size(key, data)
       THEN Do("btree_split", <<sx, mp, ki, key, data, P_INVALID>>)
       ELSE Do("btree_add_node", <<sx, mp, ki, remove_prefix(key, Len(MP(sx, mp).prefix)),
                           data, 0, 0>>), LAMBDA s4 :
  IF ~found /\ s1.errno # "ENOENT" THEN s1
  ELSE IF s4.rc # BT_SUCCESS THEN Fail([s4 EXCEPT !.txn.error = TRUE], s4.errno)
  ELSE Ok([s4 EXCEPT !.meta.entries = @ + 1])))))))

\* A btree_txn_put that answers a read-only transaction with EPERM.
put_rdonly_eperm(s, t, key, data, io) ==
  IF t # "null" /\ TxnOf(s, t).rdonly THEN Fail(s, "EPERM")
  ELSE Fail(s, "EINVAL")

btree_txn_put(s, t, key, data, io) ==
  IF t # "null" /\ TxnOf(s, t).rdonly THEN Fail(s, "EINVAL")
  ELSE IF Len(key) = 0 \/ Len(key) > MAXKEYSIZE THEN Fail(s, "EINVAL")
  ELSE LET close_txn == t = "null"
           s1 == IF close_txn THEN Do("btree_txn_begin", <<s, FALSE>>) ELSE Ok(s)
           s2 == Do("put_tree", <<s1, key, data>>)
           s3 == IF ~close_txn THEN s2
                 ELSE IF s2.rc = BT_SUCCESS THEN Do("btree_txn_commit", <<s2, "w", io>>)
                 ELSE Fail(Do("btree_txn_abort", <<s2, "w">>), s2.errno)
       IN  IF s1.rc # BT_SUCCESS THEN s1 ELSE Do("mpage_prune", <<s3>>)

---------------------------------------------------------------------------
(* Delete and rebalance *)

\* expand_prefix(low, 0) for the lowest leaf below src: the lowest key
\* below a branch page.
LowestKey(s, src) ==
  LET s1 == Do("search_descend", <<s, src, <<>>, FALSE, FALSE>>)
  IN  IF s1.rc # BT_SUCCESS THEN Ret(Ub(s1, "uninitialized"), BadKey)
      ELSE Ret(s1, Do("expand_prefix", <<s1, s1.r, 0>>))

\* find_common_prefix followed by btree_adjust_prefix when the length of
\* the prefix has changed.
recompute_prefix(s, mp) ==
  LET pfxlen == Len(MP(s, mp).prefix)
      s1 == Do("find_common_prefix", <<s, mp>>)
  IN  IF Len(MP(s1, mp).prefix) # pfxlen
      THEN Do("btree_adjust_prefix", <<s1, mp, Len(MP(s1, mp).prefix) - pfxlen>>)
      ELSE Ok(s1)

\* if (xindx == 0 && x->parent_index != 0): the separator of page x in its
\* parent becomes the first key of x; then the first key of a branch page
\* is emptied.
update_separator(s, x, xindx) ==
  LET par == MP(s, x).parent
      key == remove_prefix(Do("expand_prefix", <<s, x, 0>>), Len(MP(s, par).prefix))
  IN  With(IF xindx = 0 /\ MP(s, x).parent_index # 0
           THEN Do("btree_update_key", <<s, par, MP(s, x).parent_index, key>>)
           ELSE Ok(s), LAMBDA s1 :
  LET s2 == IF xindx = 0 /\ IS_BRANCH(PG(s1, x))
            THEN [Do("btree_update_key", <<s1, x, 0, <<>>>>) EXCEPT !.rc = BT_SUCCESS]
            ELSE s1
  IN  IF s1.rc # BT_SUCCESS THEN s1 ELSE s2)

btree_move_node(s, src0, srcindx, dst0, dstindx) ==
  LET srcnode == NODEPTR(s, src0, srcindx)
      branch == IS_BRANCH(PG(s, src0))
      s0 == Do("find_common_prefix", <<IF srcindx >= NUMKEYS(s, src0)
                               THEN Ub(s, "node-index in btree_move_node") ELSE s, src0>>)
  \* the page the moved node points to
  IN  With(Do("btree_get_mpage", <<s0, srcnode.p>>), LAMBDA g :
  LET mp == IF branch THEN g.r ELSE NULL
  IN  With(IF branch
           THEN Do("find_common_prefix", <<[g EXCEPT !.heap[mp].parent = src0,
                                             !.heap[mp].parent_index = srcindx], mp>>)
           ELSE s0, LAMBDA s1 :
  With(IF branch THEN Len(MP(s1, mp).prefix) ELSE 0, LAMBDA mp_pfxlen :
  LET t1 == Do("mpage_touch", <<s1, src0>>)
      src == t1.r
      t2 == Do("mpage_touch", <<t1, dst0>>)
      dst == t2.r
  IN  With(Do("find_common_prefix", <<t2, dst>>), LAMBDA s2 :
  With(common_prefix(srcnode.key, MP(s2, dst).prefix), LAMBDA tmpkey :
  With(IF Len(tmpkey) # Len(MP(s2, dst).prefix)
       THEN LET a == Do("btree_adjust_prefix", <<s2, dst, Len(tmpkey) - Len(MP(s2, dst).prefix)>>)
            IN  IF a.rc # BT_SUCCESS THEN a
                ELSE [a EXCEPT !.heap[dst].prefix = tmpkey]
       ELSE Ok(s2), LAMBDA s3 :
  LET lk == LowestKey(s3, src)
  IN  With(Do("find_common_prefix", <<IF srcindx = 0 /\ branch THEN lk ELSE s3, src>>), LAMBDA s4 :
  LET srckey == IF srcindx = 0 /\ branch THEN lk.r ELSE srcnode.key
      key == remove_prefix(concat_prefix(MP(s4, src).prefix, srckey),
                           Len(MP(s4, dst).prefix))
  IN  With(Do("btree_add_node", <<s4, dst, dstindx, key,
                          [size |-> srcnode.p, data |-> srcnode.data],
                          srcnode.p, srcnode.flags>>), LAMBDA s5 :
  With(Do("update_separator", <<Do("btree_del_node", <<s5, src, srcindx>>), src, srcindx>>), LAMBDA s6 :
  With(Do("update_separator", <<s6, dst, dstindx>>), LAMBDA s7 :
  LET s8 == Do("recompute_prefix", <<s7, src>>)
  IN  With(Do("recompute_prefix", <<s8, dst>>), LAMBDA s9 :
  With(Do("find_common_prefix", <<[s9 EXCEPT !.heap[mp].parent = dst,
                                     !.heap[mp].parent_index = dstindx], mp>>), LAMBDA s10 :
  LET t3 == Do("mpage_touch", <<s10, mp>>)
      s11 == IF Len(MP(s10, mp).prefix) # mp_pfxlen
             THEN Do("btree_adjust_prefix", <<t3, t3.r, Len(MP(t3, t3.r).prefix) - mp_pfxlen>>)
             ELSE Ok(s10)
  IN  IF branch /\ mp = NULL THEN Fail(g, g.errno)
      ELSE IF s3.rc # BT_SUCCESS THEN s3
      ELSE IF s5.rc # BT_SUCCESS THEN s5
      ELSE IF s6.rc # BT_SUCCESS THEN s6
      ELSE IF s7.rc # BT_SUCCESS THEN s7
      ELSE IF s8.rc # BT_SUCCESS THEN s8
      ELSE IF s9.rc # BT_SUCCESS THEN s9
      ELSE IF IS_BRANCH(PG(s9, dst)) THEN s11
      ELSE Ok(s9)))))))))))))


\* Appends nodes i.. of page src to page dst.
merge_nodes(s, src, dst, i) ==
  IF i >= NUMKEYS(s, src) THEN Ok(s)
  ELSE LET srcnode == NODEPTR(s, src, i)
           lk == LowestKey(s, src)
           low == i = 0 /\ IS_BRANCH(PG(s, src))
           s1 == IF low THEN lk ELSE s
           tmpkey == IF low THEN lk.r ELSE Do("expand_prefix", <<s, src, i>>)
       IN  With(Do("btree_add_node", <<s1, dst, NUMKEYS(s1, dst),
                               remove_prefix(tmpkey, Len(MP(s1, dst).prefix)),
                               [size |-> srcnode.p, data |-> srcnode.data],
                               srcnode.p, srcnode.flags>>), LAMBDA s2 :
       IF s2.rc # BT_SUCCESS THEN s2 ELSE Do("merge_nodes", <<s2, src, dst, i + 1>>))

btree_merge(s, src0, dst0) ==
  LET t1 == Do("mpage_touch", <<s, src0>>)
      src == t1.r
      t2 == Do("mpage_touch", <<t1, dst0>>)
      dst == t2.r
  IN  With(Do("find_common_prefix", <<Do("find_common_prefix", <<t2, src>>), dst>>), LAMBDA s1 :
  With(common_prefix(MP(s1, src).prefix, MP(s1, dst).prefix), LAMBDA dstpfx :
  With(IF Len(dstpfx) # Len(MP(s1, dst).prefix)
       THEN LET a == Do("btree_adjust_prefix", <<s1, dst, Len(dstpfx) - Len(MP(s1, dst).prefix)>>)
            IN  IF a.rc # BT_SUCCESS THEN a
                ELSE [a EXCEPT !.heap[dst].prefix = dstpfx]
       ELSE Ok(s1), LAMBDA s2 :
  With(Do("merge_nodes", <<s2, src, dst, 0>>), LAMBDA s3 :
  LET par == MP(s3, src).parent
  IN  With(Do("btree_del_node", <<s3, par, MP(s3, src).parent_index>>), LAMBDA s4 :
  With(IF MP(s4, src).parent_index = 0
       THEN Do("btree_update_key", <<s4, par, 0, <<>>>>)
       ELSE Ok(s4), LAMBDA s5 :
  With(IF MP(s4, src).parent_index = 0 THEN Do("find_common_prefix", <<s5, src>>) ELSE s5, LAMBDA s6 :
  LET s7 == IF IS_LEAF(PG(s6, src)) THEN [s6 EXCEPT !.meta.leaf_pages = @ - 1]
            ELSE [s6 EXCEPT !.meta.branch_pages = @ - 1]
  IN  IF s2.rc # BT_SUCCESS THEN s2
      ELSE IF s3.rc # BT_SUCCESS THEN s3
      ELSE IF s5.rc # BT_SUCCESS THEN s5
      ELSE Do("btree_rebalance", <<s7, par>>))))))))

\* A btree_rebalance that leaves every page as it is.
rebalance_nothing(s, mp) == Ok(s)

btree_rebalance(s, mp) ==
  LET parent == MP(s, mp).parent
      pi == MP(s, mp).parent_index
      ni == IF pi = 0 THEN pi + 1 ELSE pi - 1
  IN  With(Do("btree_get_mpage", <<IF ni >= NUMKEYS(s, parent) THEN Ub(s, "node-index in btree_rebalance") ELSE s,
                           NODEPTR(s, parent, ni).p>>), LAMBDA g :
  LET neighbor == g.r
  IN  With([g EXCEPT !.heap[neighbor].parent_index = ni,
                     !.heap[neighbor].parent = parent], LAMBDA s1 :
  LET si == IF pi = 0 THEN 0 ELSE U16(NUMKEYS(s1, neighbor) - 1)
      di == IF pi = 0 THEN NUMKEYS(s1, mp) ELSE 0
      child == NODEPTR(s, mp, 0).p
  IN  With(Do("btree_get_mpage", <<[s EXCEPT !.txn.root = child], child>>), LAMBDA gr :
  IF PAGEFILL(s, mp) >= FILL_THRESHOLD THEN Ok(s)
  ELSE IF parent = NULL
  THEN IF NUMKEYS(s, mp) = 0
       THEN Ok([s EXCEPT !.txn.root = P_INVALID, !.meta.depth = @ - 1,
                         !.meta.leaf_pages = @ - 1])
       ELSE IF IS_BRANCH(PG(s, mp)) /\ NUMKEYS(s, mp) = 1
       THEN IF gr.r = NULL THEN Fail(gr, gr.errno)
            ELSE Ok([gr EXCEPT !.heap[gr.r].parent = NULL,
                               !.meta.depth = @ - 1,
                               !.meta.branch_pages = @ - 1])
       ELSE Ok(s)
  ELSE IF neighbor = NULL THEN Fail(g, g.errno)
  ELSE IF PAGEFILL(s1, neighbor) >= FILL_THRESHOLD /\ NUMKEYS(s1, neighbor) >= 2
  THEN Do("btree_move_node", <<s1, neighbor, si, mp, di>>)
  ELSE IF pi = 0 THEN Do("btree_merge", <<s1, neighbor, mp>>)
  ELSE Do("btree_merge", <<s1, mp, neighbor>>))))

\* The body of btree_txn_del between the begin and the commit of the
\* transaction (data = NULL: the old value is not asked for).
del_tree(s, key) ==
  LET s1 == Do("btree_search_page", <<s, "w", key, FALSE, TRUE>>)
      mp == s1.r
      f == Do("btree_search_node", <<s1, mp, key>>)
      s2 == Do("btree_del_node", <<s1, mp, f.ki>>)
      s3 == Do("btree_rebalance", <<[s2 EXCEPT !.meta.entries = @ - 1], mp>>)
  IN  IF s1.rc # BT_SUCCESS THEN s1
      ELSE IF f.null \/ ~f.exact THEN Fail(s1, "ENOENT")
      ELSE IF s3.rc # BT_SUCCESS THEN Fail([s3 EXCEPT !.txn.error = TRUE], s3.errno)
      ELSE s3

btree_txn_del(s, t, key, io) ==
  IF t # "null" /\ TxnOf(s, t).rdonly THEN Fail(s, "EINVAL")
  ELSE IF Len(key) = 0 \/ Len(key) > MAXKEYSIZE THEN Fail(s, "EINVAL")
  ELSE LET close_txn == t = "null"
           s1 == IF close_txn THEN Do("btree_txn_begin", <<s, FALSE>>) ELSE Ok(s)
           s2 == Do("del_tree", <<s1, key>>)
           s3 == IF ~close_txn THEN s2
                 ELSE IF s2.rc = BT_SUCCESS THEN Do("btree_txn_commit", <<s2, "w", io>>)
                 ELSE Fail(Do("btree_txn_abort", <<s2, "w">>), s2.errno)
       IN  IF s1.rc # BT_SUCCESS THEN s1 ELSE Do("mpage_prune", <<s3>>)

---------------------------------------------------------------------------
(* Opening a file *)

HeadPage == EmptyPage(0, P_HEAD)

\* A struct btree as btree_open_fd initialises it; me names the process.
NewHandle(me) ==
  [me |-> me, open |-> TRUE, heap |-> <<>>, cache |-> <<>>, cache_size |-> 0,
   max_cache |-> BT_MAXCACHE_DEF, lru |-> <<>>, nextid |-> 1, meta |-> NoMeta,
   size |-> 0, fixpadding |-> FALSE, txn |-> NoTxn, rtxn |-> NoTxn,
   cur |-> NoCursor, ref |-> 1, rc |-> BT_SUCCESS, errno |-> "", r |-> NULL,
   ub |-> {}, ev |-> {}]

btree_write_header(s) == Ok([s EXCEPT !.file = Append(@, HeadPage)])

btree_read_header(s) ==
  IF Len(s.file) = 0 /\ s.pad = 0 THEN Fail(s, "ENOENT")
  ELSE IF Len(s.file) = 0 THEN Fail(s, "EINVAL")
  ELSE IF ~F_ISSET(s.file[1].flags, P_HEAD) THEN Fail(s, "EINVAL")
  ELSE Ok(s)

\* s is a new handle on the file; on failure the handle is freed.
btree_open_fd(s) ==
  LET s1 == Do("btree_read_header", <<s>>)
      s2 == IF s1.rc # BT_SUCCESS THEN Do("btree_write_header", <<s1>>) ELSE s1
      s3 == Do("btree_read_meta", <<s2>>)
  IN  IF s1.rc # BT_SUCCESS /\ s1.errno # "ENOENT" THEN [s1 EXCEPT !.open = FALSE]
      ELSE IF s3.rc # BT_SUCCESS THEN [s3 EXCEPT !.open = FALSE]
      ELSE s3

---------------------------------------------------------------------------
(* Compaction.  While btree_compact runs, s.btc is the handle btc of the   *)
(* file that replaces the one of s.                                        *)

\* The loops of btree_compact_tree over the nodes of the copied page p,
\* from node i on; on success s.r is the page with its pointers updated.
compact_nodes(s, p, i) ==
  IF i >= NUMKEYSP(p) THEN Ret(Ok(s), p)
  ELSE LET node == p.nodes[i + 1]
       IN  IF F_ISSET(p.flags, P_BRANCH)
           THEN With(Do("btree_compact_tree", <<s, node.p>>), LAMBDA s1 :
                IF s1.r = P_INVALID THEN Fail(s1, s1.errno)
                ELSE Do("compact_nodes", <<s1, [p EXCEPT !.nodes[i + 1].p = s1.r], i + 1>>))
           ELSE IF F_ISSET(node.flags, F_BIGDATA)
           THEN With(Do("btree_compact_tree", <<s, node.data[1]>>), LAMBDA s1 :
                IF s1.r = P_INVALID THEN Fail(s1, s1.errno)
                ELSE Do("compact_nodes",
                        <<s1, [p EXCEPT !.nodes[i + 1].data = <<s1.r>>], i + 1>>))
           ELSE Do("compact_nodes", <<s, p, i + 1>>)

\* s.r is the page number of the copy in the new file, or P_INVALID;
\* s.btc.io tells how the write of the copy ends.
btree_compact_tree(s, pgno) ==
  LET s1 == Do("btree_get_mpage", <<s, pgno>>)
  IN  IF s1.r = NULL THEN Ret(Fail(s1, s1.errno), P_INVALID)
      ELSE With(PG(s1, s1.r), LAMBDA p :
           With(IF F_ISSET(p.flags, P_BRANCH) \/ F_ISSET(p.flags, P_LEAF)
                THEN Do("compact_nodes", <<s1, p, 0>>)
                ELSE IF F_ISSET(p.flags, P_OVERFLOW) /\ p.next > 0
                THEN With(Do("btree_compact_tree", <<s1, p.next>>), LAMBDA n :
                     IF n.r = P_INVALID THEN Fail(n, n.errno)
                     ELSE Ret(Ok(n), [p EXCEPT !.next = n.r]))
                ELSE Ret(Ok(s1), p), LAMBDA s2 :
           IF s2.rc # BT_SUCCESS THEN Ret(s2, P_INVALID)
           ELSE LET new == s2.btc.txn.next_pgno
                    c == AppendPages([s2.btc EXCEPT !.txn.next_pgno = @ + 1],
                                     <<[s2.r EXCEPT !.pgno = new]>>, s2.btc.io)
                IN  IF c.rc # BT_SUCCESS THEN Ret(Fail([s2 EXCEPT !.btc = c], c.errno), P_INVALID)
                    ELSE Ret(Do("mpage_prune", <<Ok([s2 EXCEPT !.btc = c])>>), new)))

---------------------------------------------------------------------------
(* Calls *)

\* The call of function f with the arguments a; the arguments are computed
\* before the function is entered.
Do(f, a) ==
  IF Len(a) = 0 THEN a ELSE
  CASE f = "mpage_lookup" -> mpage_lookup(a[1], a[2])
    [] f = "mpage_add" -> mpage_add(a[1], a[2])
    [] f = "mpage_free" -> mpage_free(a[1], a[2])
    [] f = "mpage_del" -> mpage_del(a[1], a[2])
    [] f = "mpage_copy" -> mpage_copy(a[1], a[2])
    [] f = "mpage_prune_from" -> mpage_prune_from(a[1], a[2])
    [] f = "mpage_prune" -> mpage_prune(a[1])
    [] f = "mpage_dirty" -> mpage_dirty(a[1], a[2])
    [] f = "mpage_touch" -> mpage_touch(a[1], a[2])
    [] f = "btree_read_page" -> btree_read_page(a[1], a[2])
    [] f = "btree_sync" -> btree_sync(a[1])
    [] f = "btree_get_mpage" -> btree_get_mpage(a[1], a[2])
    [] f = "btree_new_page" -> btree_new_page(a[1], a[2])
    [] f = "btree_write_meta" -> btree_write_meta(a[1], a[2], a[3], a[4])
    [] f = "read_meta_scan" -> read_meta_scan(a[1], a[2])
    [] f = "btree_read_meta" -> btree_read_meta(a[1])
    [] f = "btree_close" -> btree_close(a[1])
    [] f = "discard_dirty" -> discard_dirty(a[1])
    [] f = "btree_txn_abort" -> btree_txn_abort(a[1], a[2])
    [] f = "btree_txn_begin" -> btree_txn_begin(a[1], a[2])
    [] f = "commit_fixpadding" -> commit_fixpadding(a[1], a[2])
    [] f = "clear_dirty" -> clear_dirty(a[1], a[2])
    [] f = "commit_write_batch" -> commit_write_batch(a[1], a[2])
    [] f = "commit_write_all" -> commit_write_all(a[1], a[2])
    [] f = "btree_write_overflow_data" -> btree_write_overflow_data(a[1], a[2], a[3])
    [] f = "btree_add_node" -> btree_add_node(a[1], a[2], a[3], a[4], a[5], a[6], a[7])
    [] f = "btree_del_node" -> btree_del_node(a[1], a[2], a[3])
    [] f = "btree_update_key" -> btree_update_key(a[1], a[2], a[3], a[4])
    [] f = "adjust_prefix_from" -> adjust_prefix_from(a[1], a[2], a[3], a[4])
    [] f = "btree_adjust_prefix" -> btree_adjust_prefix(a[1], a[2], a[3])
    [] f = "expand_prefix" -> expand_prefix(a[1], a[2], a[3])
    [] f = "LowerBracketPage" -> LowerBracketPage(a[1], a[2])
    [] f = "UpperBracketPage" -> UpperBracketPage(a[1], a[2])
    [] f = "ChainLive" -> ChainLive(a[1], a[2])
    [] f = "find_common_prefix" -> find_common_prefix(a[1], a[2])
    [] f = "btree_search_node" -> btree_search_node(a[1], a[2], a[3])
    [] f = "cursor_push_page" -> cursor_push_page(a[1], a[2])
    [] f = "cursor_pop_page" -> cursor_pop_page(a[1])
    [] f = "cursor_clear" -> cursor_clear(a[1])
    [] f = "search_descend" -> search_descend(a[1], a[2], a[3], a[4], a[5])
    [] f = "btree_search_page_root" -> btree_search_page_root(a[1], a[2], a[3], a[4], a[5])
    [] f = "btree_search_page" -> btree_search_page(a[1], a[2], a[3], a[4], a[5])
    [] f = "read_overflow" -> read_overflow(a[1], a[2], a[3])
    [] f = "btree_read_data" -> btree_read_data(a[1], a[2], a[3])
    [] f = "bt_set_key" -> bt_set_key(a[1], a[2], a[3], a[4])
    [] f = "btree_txn_get" -> btree_txn_get(a[1], a[2], a[3])
    [] f = "btree_txn_cursor_open" -> btree_txn_cursor_open(a[1], a[2])
    [] f = "btree_cursor_close" -> btree_cursor_close(a[1])
    [] f = "btree_sibling" -> btree_sibling(a[1], a[2])
    [] f = "cursor_read" -> cursor_read(a[1], a[2], a[3])
    [] f = "btree_cursor_next" -> btree_cursor_next(a[1])
    [] f = "btree_cursor_set" -> btree_cursor_set(a[1], a[2], a[3])
    [] f = "btree_cursor_first" -> btree_cursor_first(a[1])
    [] f = "btree_cursor_get" -> btree_cursor_get(a[1], a[2], a[3])
    [] f = "bt_reduce_separator" -> bt_reduce_separator(a[1], a[2])
    [] f = "split_loop" -> split_loop(a[1], a[2], a[3], a[4], a[5], a[6])
    [] f = "btree_split" -> btree_split(a[1], a[2], a[3], a[4], a[5], a[6])
    [] f = "commit_check" -> commit_check(a[1], a[2])
    [] f = "commit_data" -> commit_data(a[1], a[2])
    [] f = "commit_meta" -> commit_meta(a[1], a[2])
    [] f = "commit_done" -> commit_done(a[1])
    [] f = "btree_txn_commit" -> btree_txn_commit(a[1], a[2], a[3])
    [] f = "put_tree" -> put_tree(a[1], a[2], a[3])
    [] f = "btree_txn_put" -> btree_txn_put(a[1], a[2], a[3], a[4], a[5])
    [] f = "recompute_prefix" -> recompute_prefix(a[1], a[2])
    [] f = "update_separator" -> update_separator(a[1], a[2], a[3])
    [] f = "btree_move_node" -> btree_move_node(a[1], a[2], a[3], a[4], a[5])
    [] f = "merge_nodes" -> merge_nodes(a[1], a[2], a[3], a[4])
    [] f = "btree_merge" -> btree_merge(a[1], a[2], a[3])
    [] f = "btree_rebalance" -> btree_rebalance(a[1], a[2])
    [] f = "del_tree" -> del_tree(a[1], a[2])
    [] f = "btree_txn_del" -> btree_txn_del(a[1], a[2], a[3], a[4])
    [] f = "btree_write_header" -> btree_write_header(a[1])
    [] f = "btree_read_header" -> btree_read_header(a[1])
    [] f = "btree_open_fd" -> btree_open_fd(a[1])
    [] f = "compact_nodes" -> compact_nodes(a[1], a[2], a[3])
    [] f = "btree_compact_tree" -> btree_compact_tree(a[1], a[2])

-----
(* The state machine *)

\* The puts, dels and gets of a run, and the calls of a run of transactions.
MaxOps == 3
MaxCalls == 6

NoVal == <<-1>>

\* file is the file the handles have open: pad is the length of a torn
\* page at its end, tail what that page holds.  compact is the file a
\* btree_compact has put at the path in its place, <<>> when there is none.
\* synced is the number of pages the file had at the last fsync.
DiskFields == {"file", "pad", "tail", "lock", "compact", "synced"}

\* The handle state an operator works on: struct btree with its file.
Load(h, d) == h @@ d

StoreDisk(s) == [f \in DOMAIN s \cap DiskFields |-> s[f]]
StoreHandle(s) ==
  [f \in DOMAIN s \ DiskFields |->
     IF f = "r" THEN NULL ELSE IF f = "rc" THEN BT_SUCCESS ELSE s[f]]

NoFile == [file |-> <<>>, pad |-> 0, tail |-> GarbagePage, lock |-> "", compact |-> <<>>,
           synced |-> 0]

btree_open(me, d) == Do("btree_open_fd", <<Load(NewHandle(me), d)>>)

\* Where which write of a btree_compact fails, if any: a page of the tree,
\* the meta page of the new file, the tombstone.
CompactIo == {"ok", "tree", "meta", "tombstone"}

\* The label failed of btree_compact; s.btc is dropped with btree_close.
compact_failed(s, e) ==
  LET s1 == Do("btree_txn_abort", <<s, "w">>)
      s2 == Do("mpage_prune", <<s1>>)
  IN  Fail([f \in DOMAIN s2 \ {"btc"} |-> s2[f]], e)

\* io is a member of CompactIo.
btree_compact(s, io) ==
  With(Do("btree_txn_begin", <<s, FALSE>>), LAMBDA b :
  IF b.rc # BT_SUCCESS THEN b
  ELSE
  LET c0 == btree_open("C", NoFile)
      c1 == [c0 EXCEPT !.meta = [b.meta EXCEPT !.revisions = 0]]
      c2 == Do("btree_txn_begin", <<c1, FALSE>>)
  IN  With(b @@ [btc |-> c2 @@ [io |-> IF io = "tree" THEN "fail" ELSE IoOk]], LAMBDA s1 :
      With(IF b.meta.root # P_INVALID THEN Do("btree_compact_tree", <<s1, b.meta.root>>)
           ELSE Ret(Ok(s1), P_INVALID), LAMBDA s2 :
      With(IF b.meta.root # P_INVALID /\ s2.r # P_INVALID
           THEN Do("btree_write_meta", <<s2.btc, s2.r, 0, IF io = "meta" THEN "fail" ELSE IoOk>>)
           ELSE Ok(s2.btc), LAMBDA c3 :
      IF c2.rc # BT_SUCCESS THEN compact_failed(s1, c2.errno)
      ELSE IF b.meta.root # P_INVALID /\ s2.r = P_INVALID THEN compact_failed(s2, s2.errno)
      ELSE IF c3.rc # BT_SUCCESS THEN compact_failed(s2, c3.errno)
      ELSE With(Do("btree_write_meta", <<[s2 EXCEPT !.compact = c3.file], P_INVALID,
                                         BT_TOMBSTONE,
                                         IF io = "tombstone" THEN "fail" ELSE IoOk>>), LAMBDA s3 :
           IF s3.rc # BT_SUCCESS THEN compact_failed(s3, s3.errno)
           ELSE LET s4 == Do("btree_txn_abort", <<s3, "w">>)
                    s5 == Do("mpage_prune", <<s4>>)
                IN  Ok([f \in DOMAIN s5 \ {"btc"} |-> s5[f]]))))))

\* The null-transaction puts of a sequence of <<key, value>> pairs, one
\* call after the other.
RECURSIVE RunPuts(_, _)
RunPuts(s, q) ==
  IF q = <<>> THEN s
  ELSE With(Do("btree_txn_put", <<s, "null", Head(q)[1], Val(Head(q)[2]), AllOk>>), LAMBDA n :
       IF n.rc = BT_SUCCESS /\ n.ub = {}
       THEN RunPuts(Load(StoreHandle(n), StoreDisk(n)), Tail(q))
       ELSE n)

\* Keys and values the calls of the model are made with.
Keys == {<<2, 3>>, <<1, 1, 2>>}
Values == {<<7>>, <<8, 8, 8, 8>>}

\* Databases the model starts from: each is built from an empty file by
\* the puts of one of these sequences.
Fill(q, v) == [i \in 1..Len(q) |-> <<q[i], v>>]

Preloads ==
  { <<>>,
    Fill(<< <<1, 1, 1>>, <<2, 3>> >>, <<7>>),
    Fill(<< <<1, 1, 1>>, <<1, 1, 3>>, <<1, 2, 2>>, <<2, 1, 1>> >>, <<7>>),
    Fill(<< <<1, 1>>, <<1, 2>>, <<1, 3>>, <<2, 2, 3>>, <<2, 3>>, <<3, 1>>,
            <<2, 2, 1>>, <<2, 3, 2>>, <<2, 1, 2>>, <<2, 1, 3>> >>, <<7>>) }

AllKeys ==
  Keys \cup {<<2, 3, 3>>} \cup UNION {{q[i][1] : i \in 1..Len(q)} : q \in Preloads}

\* The reference map: a key's value, or NoVal for an absent key.
EmptyMap == [k \in AllKeys |-> NoVal]

RECURSIVE MapOf(_)
MapOf(q) ==
  IF q = <<>> THEN EmptyMap
  ELSE [MapOf(SubSeq(q, 1, Len(q) - 1)) EXCEPT ![q[Len(q)][1]] = q[Len(q)][2]]

Present(m) == {k \in AllKeys : m[k] # NoVal}

\* What btree_txn_get gives for a key: the value, NoVal when it fails with
\* ENOENT, Broken when it fails otherwise.
Broken == <<-2>>

GetVal(s, t, k) ==
  With(Do("btree_txn_get", <<s, t, k>>), LAMBDA g :
  IF g.rc = BT_SUCCESS THEN g.r
  ELSE IF g.errno = "ENOENT" THEN NoVal ELSE Broken)

\* What the gets of transaction t give for every key.
View(s, t) == [k \in AllKeys |-> GetVal(s, t, k)]

\* What a cursor of its own on transaction t gives: BT_FIRST, then BT_NEXT
\* until it fails.
RECURSIVE TraverseFrom(_, _, _)
TraverseFrom(s, op, fuel) ==
  With(Do("btree_cursor_get", <<s, <<>>, op>>), LAMBDA n :
  IF n.rc # BT_SUCCESS \/ fuel = 0 THEN <<>>
  ELSE << <<n.r.key, n.r.data>> >> \o TraverseFrom(n, "BT_NEXT", fuel - 1))

Traverse(s, t) ==
  TraverseFrom(Do("btree_txn_cursor_open", <<[s EXCEPT !.cur = NoCursor], t>>), "BT_FIRST",
               Cardinality(AllKeys) + 1)

\* Outcomes of the system calls of one commit.
IoCases == {AllOk, [AllOk EXCEPT !.data = "fail"], [AllOk EXCEPT !.meta = "fail"]}

NoCall == [op |-> "none", who |-> "A", t |-> "null", key |-> <<>>, val |-> NoVal,
           rc |-> BT_SUCCESS, errno |-> "", io |-> AllOk, pre |-> <<>>]

Call(op, who, t, key, val, io, s) ==
  [op |-> op, who |-> who, t |-> t, key |-> key, val |-> val, rc |-> s.rc,
   errno |-> IF s.rc = BT_SUCCESS THEN "" ELSE s.errno, io |-> io, pre |-> <<>>]

Idle == [at |-> "idle", wr |-> 0]

Hist0(m, s) ==
  [n |-> 0, calls |-> 0, map |-> m, wmap |-> m, last |-> NoCall,
   trav |-> <<>>, tend |-> FALSE, seen |-> FALSE,
   bview |-> <<>>, btrav |-> <<>>, rview |-> <<>>, rtrav |-> <<>>,
   committed |-> s.meta.revisions > 0, csize |-> FileSize(s),
   snap |-> View(s, "null"), pending |-> View(s, "null"),
   old |-> s.meta.root, new |-> s.meta.root, compacted |-> FALSE]

InitWith(q) ==
  LET s == RunPuts(btree_open("A", NoFile), q)
  IN  /\ disk = StoreDisk(s)
      /\ bt = StoreHandle(s)
      /\ peer = StoreHandle(btree_open("B", StoreDisk(s)))
      /\ hist = Hist0(MapOf(q), s)
      /\ pc = Idle

Init == \E q \in Preloads : InitWith(q)

\* What a call of process who leaves behind: its handle, the file, the
\* history.  cost is 1 for a call that counts against MaxOps; every call
\* counts against MaxCalls where a specification bounds the calls.
Done(who, s, h, cost) ==
  /\ disk' = StoreDisk(s)
  /\ IF who = "A" THEN bt' = StoreHandle(s) /\ UNCHANGED peer
     ELSE peer' = StoreHandle(s) /\ UNCHANGED bt
  /\ hist' = [h EXCEPT !.n = hist.n + cost, !.calls = hist.calls + 1]
  /\ UNCHANGED pc

CanCall == pc.at = "idle" /\ bt.open
HasOps == hist.n < MaxOps
InBudget == hist.calls < MaxCalls

\* The map a transaction's calls work on.
MapFor(t) == IF t = "w" THEN hist.wmap ELSE hist.map

\* The pages the write transaction of handle h has dirtied.
DirtyPages(h) == [i \in 1..Len(h.txn.dirty_queue) |-> h.heap[h.txn.dirty_queue[i]]]

\* btree_txn_put(bt, txn, key, data) and btree_put (txn = NULL).
Put(t, k, v, io) ==
  /\ CanCall /\ HasOps
  /\ t = "w" => ~bt.txn.null
  /\ t = "null" \/ io = AllOk
  /\ With(Do("btree_txn_put", <<Load(bt, disk), t, k, Val(v), io>>), LAMBDA s :
     With(s.rc = BT_SUCCESS, LAMBDA ok :
     Done("A", s, [hist EXCEPT !.last = Call("put", "A", t, k, v, io, s),
                     !.map = IF ok /\ t = "null" THEN [@ EXCEPT ![k] = v] ELSE @,
                     !.wmap = IF ok /\ t = "w" THEN [@ EXCEPT ![k] = v] ELSE @,
                     !.seen = FALSE], 1)))

\* btree_txn_del(bt, txn, key, NULL) and btree_del (txn = NULL).
Del(t, k, io) ==
  /\ CanCall /\ HasOps
  /\ t = "w" => ~bt.txn.null
  /\ t = "null" \/ io = AllOk
  /\ With(Do("btree_txn_del", <<Load(bt, disk), t, k, io>>), LAMBDA s :
     With(s.rc = BT_SUCCESS, LAMBDA ok :
     Done("A", s, [hist EXCEPT !.last = Call("del", "A", t, k, NoVal, io, s),
                     !.map = IF ok /\ t = "null" THEN [@ EXCEPT ![k] = NoVal] ELSE @,
                     !.wmap = IF ok /\ t = "w" THEN [@ EXCEPT ![k] = NoVal] ELSE @,
                     !.seen = FALSE], 1)))

\* btree_txn_get(bt, txn, key, data) and btree_get (txn = NULL).
Get(t, k) ==
  /\ CanCall /\ HasOps
  /\ t = "w" => ~bt.txn.null
  /\ t = "r" => ~bt.rtxn.null
  /\ With(Do("btree_txn_get", <<Load(bt, disk), t, k>>), LAMBDA s :
     Done("A", s, [hist EXCEPT !.last = Call("get", "A", t, k,
                                             IF s.rc = BT_SUCCESS THEN s.r ELSE NoVal,
                                             AllOk, s)], 1))

\* What a btree_txn_begin finds: the write transactions and their pages.
BeginPre ==
  [txn |-> bt.txn, ptxn |-> peer.txn, lock |-> disk.lock,
   dirty |-> DirtyPages(bt), pdirty |-> DirtyPages(peer), file |-> disk.file]

\* btree_txn_begin(bt, rdonly).
Begin(rdonly) ==
  /\ CanCall
  /\ rdonly => bt.rtxn.null
  /\ With(Do("btree_txn_begin", <<Load(bt, disk), rdonly>>), LAMBDA s :
     With(s.rc = BT_SUCCESS, LAMBDA ok :
     LET t == IF rdonly THEN "r" ELSE "w"
     IN  Done("A", s,
              [hist EXCEPT !.last = [Call("begin", "A", t, <<>>, NoVal, AllOk, s)
                                      EXCEPT !.pre = BeginPre],
                           !.wmap = IF ok /\ ~rdonly THEN hist.map ELSE @,
                           !.bview = IF ok /\ ~rdonly THEN View(Load(bt, disk), "null")
                                     ELSE @,
                           !.btrav = IF ok /\ ~rdonly THEN Traverse(Load(bt, disk), "null")
                                     ELSE @,
                           !.rview = IF ok /\ rdonly THEN View(s, "r") ELSE @,
                           !.rtrav = IF ok /\ rdonly THEN Traverse(s, "r") ELSE @], 0)))

\* btree_txn_commit(txn) on the write transaction.
Commit(io) ==
  /\ CanCall
  /\ ~bt.txn.null
  /\ With(Do("btree_txn_commit", <<Load(bt, disk), "w", io>>), LAMBDA s :
     LET ok == s.rc = BT_SUCCESS
     IN  Done("A", s, [hist EXCEPT !.last = Call("commit", "A", "w", <<>>, NoVal, io, s),
                                   !.map = IF ok THEN hist.wmap ELSE @,
                                   !.seen = FALSE], 0))

\* What a btree_txn_abort finds: the pages of the write transaction's dirty
\* queue, and the undefined behaviour there has been.
AbortPre ==
  [dirty |-> bt.txn.dirty_queue, ub |-> bt.ub]

\* btree_txn_abort(txn); the caller has closed the cursors of txn.
Abort(t) ==
  /\ CanCall
  /\ ~TxnOf(bt, t).null
  /\ ~(bt.cur.open /\ bt.cur.txn = t)
  /\ With(Ok(Do("btree_txn_abort", <<Load(bt, disk), t>>)), LAMBDA s :
     Done("A", s, [hist EXCEPT !.last = [Call("abort", "A", t, <<>>, NoVal, AllOk, s)
                                          EXCEPT !.pre = AbortPre]], 0))

\* Another process, with a handle of its own on the file.
PeerBegin(rdonly) ==
  /\ peer.open
  /\ rdonly => peer.rtxn.null
  /\ With(Do("btree_txn_begin", <<Load(peer, disk), rdonly>>), LAMBDA s :
     LET t == IF rdonly THEN "r" ELSE "w"
     IN  Done("B", s, [hist EXCEPT !.last = [Call("begin", "B", t, <<>>, NoVal, AllOk, s)
                                              EXCEPT !.pre = BeginPre]], 0))

PeerAbort(t) ==
  /\ peer.open
  /\ ~TxnOf(peer, t).null
  /\ With(Ok(Do("btree_txn_abort", <<Load(peer, disk), t>>)), LAMBDA s :
     Done("B", s, [hist EXCEPT !.last = Call("abort", "B", t, <<>>, NoVal, AllOk, s)],
          0))

PeerGet(t, k) ==
  /\ peer.open /\ HasOps
  /\ t = "r" => ~peer.rtxn.null
  /\ With(Do("btree_txn_get", <<Load(peer, disk), t, k>>), LAMBDA s :
     Done("B", s, [hist EXCEPT !.last = Call("get", "B", t, k,
                                             IF s.rc = BT_SUCCESS THEN s.r ELSE NoVal,
                                             AllOk, s)], 1))

NextKV ==
  \/ \E k \in Keys, v \in Values, io \in IoCases : Put("null", k, v, io)
  \/ \E k \in Keys, io \in IoCases : Del("null", k, io)
  \/ \E k \in AllKeys : Get("null", k)

SpecKV == Init /\ [][NextKV]_vars

---------------------------------------------------------------------------
(* Lookups against the reference map *)

\* C1: a get of a key that has been put since its last delete succeeds and
\* returns the value of the most recent put, whatever splits, merges and
\* node moves the puts and deletes in between have caused.
C1_GetReturnsLatestPut ==
  (hist.last.op = "get" /\ hist.last.t = "null"
     /\ hist.map[hist.last.key] # NoVal)
  => (hist.last.rc = BT_SUCCESS /\ hist.last.val = hist.map[hist.last.key])

\* A get of <<2, 2, 3>>, put and never deleted, fails after the delete of
\* <<2, 3>> has moved a node into the emptied leaf.
C1_Witness ==
  /\ hist.last.op = "get" /\ hist.last.key = <<2, 2, 3>>
  /\ hist.map[<<2, 2, 3>>] = <<7>>
  /\ hist.last.rc = BT_FAIL /\ hist.last.errno = "ENOENT"
  /\ bt.ub = {} /\ bt.ev = {}

\* C2: a get of a key that was never put, or whose last operation was a
\* successful delete, fails with ENOENT.
C2_GetOfAbsentKeyFails ==
  (hist.last.op = "get" /\ hist.last.t = "null"
     /\ hist.map[hist.last.key] = NoVal)
  => (hist.last.rc = BT_FAIL /\ hist.last.errno = "ENOENT")

\* A get of <<2, 3, 3>>, which no call has put, succeeds.
C2_Witness ==
  /\ hist.last.op = "get" /\ hist.last.key = <<2, 3, 3>>
  /\ hist.map[<<2, 3, 3>>] = NoVal
  /\ hist.last.rc = BT_SUCCESS /\ hist.last.val = <<7>>
  /\ bt.ub = {} /\ bt.ev = {}


---------------------------------------------------------------------------
(* Null-transaction calls *)

\* What the write transaction that a null-transaction call c begins on s
\* reads once the call has changed the tree, before it commits.
OwnTxnView(s, c) ==
  With(Do("btree_txn_begin", <<s, FALSE>>), LAMBDA b :
  LET m == IF c.op = "put" THEN Do("put_tree", <<b, c.key, Val(c.val)>>) ELSE Do("del_tree", <<b, c.key>>)
  IN  View(m, "w"))

\* C6: a put or del with a null txn is atomic: after the call no write txn
\* is active on the handle; when the call has succeeded the committed state
\* is the complete result of its transaction, and when it has failed the
\* committed state is exactly the state before the call.
C6_NullTxnAtomic ==
  [][(hist'.n = hist.n + 1 /\ hist'.last.op \in {"put", "del"}
        /\ hist'.last.t = "null")
     => /\ bt'.txn.null
        /\ disk'.lock = ""
        /\ IF hist'.last.rc = BT_SUCCESS
           THEN View(Load(bt', disk'), "null") = OwnTxnView(Load(bt, disk), hist'.last)
           ELSE View(Load(bt', disk'), "null") = View(Load(bt, disk), "null")]_vars

\* The first put into a new file has failed at the write of the meta page,
\* after its leaf page was written: gets now fail with EIO, where before
\* the call they failed with ENOENT.
C6_Witness ==
  /\ hist.last.op = "put" /\ hist.last.t = "null"
  /\ hist.last.rc = BT_FAIL /\ hist.last.io.meta = "fail"
  /\ hist.map = EmptyMap /\ hist.n = 1
  /\ bt.txn.null
  /\ GetVal(Load(bt, disk), "null", hist.last.key) = Broken


---------------------------------------------------------------------------
(* Cursor traversal *)

\* btree_txn_cursor_open(bt, txn).
CursorOpen(t) ==
  /\ CanCall
  /\ ~bt.cur.open
  /\ t = "r" => ~bt.rtxn.null
  /\ ~hist.seen
  /\ With(Ok(Do("btree_txn_cursor_open", <<Load(bt, disk), t>>)), LAMBDA s :
     Done("A", s, [hist EXCEPT !.last = Call("cursor_open", "A", t, <<>>, NoVal, AllOk, s),
                               !.trav = <<>>, !.tend = FALSE], 0))

\* btree_cursor_get(cursor, key, data, op) with op BT_FIRST on a new
\* cursor, BT_NEXT after it; cost is what the call counts against MaxOps.
CursorGet(op, cost) ==
  /\ CanCall
  /\ cost > 0 => HasOps
  /\ bt.cur.open /\ ~hist.tend
  /\ op = "BT_FIRST" <=> hist.trav = <<>>
  /\ With(Do("btree_cursor_get", <<Load(bt, disk), <<>>, op>>), LAMBDA s :
     With(s.rc = BT_SUCCESS, LAMBDA ok :
     Done("A", s,
          [hist EXCEPT !.last = Call(op, "A", bt.cur.txn,
                                     IF ok THEN s.r.key ELSE <<>>,
                                     IF ok THEN s.r.data ELSE NoVal, AllOk, s),
                       !.trav = IF ok THEN Append(@, <<s.r.key, s.r.data>>) ELSE @,
                       !.tend = ~ok], cost)))

\* btree_cursor_close(cursor): of a cursor without a transaction once its
\* traversal has come to its end, of a transaction's cursor at any point.
CursorClose ==
  /\ CanCall
  /\ bt.cur.open /\ (hist.tend \/ bt.cur.txn # "null")
  /\ With(Ok(Do("btree_cursor_close", <<Load(bt, disk)>>)), LAMBDA s :
     Done("A", s, [hist EXCEPT !.last = Call("cursor_close", "A", bt.cur.txn, <<>>,
                                             NoVal, AllOk, s),
                               !.trav = <<>>, !.tend = FALSE,
                               !.seen = hist.trav # <<>> \/ hist.tend], 0))

\* Committed puts and deletes, and between them full traversals of the
\* committed tree by a cursor without a transaction.
NextCur ==
  \/ \E k \in Keys, v \in Values : ~bt.cur.open /\ Put("null", k, v, AllOk)
  \/ \E k \in Keys : ~bt.cur.open /\ Del("null", k, AllOk)
  \/ CursorOpen("null")
  \/ \E op \in {"BT_FIRST", "BT_NEXT"} : CursorGet(op, 0)
  \/ CursorClose

SpecCur == Init /\ [][NextCur]_vars

\* The keys a traversal has returned, in the order of the calls.
TravKeys == [i \in 1..Len(hist.trav) |-> hist.trav[i][1]]

\* C3: on a committed tree BT_FIRST followed by BT_NEXT until failure yields
\* the keys in strictly increasing byte order, visits every present key
\* exactly once, and then fails with ENOENT.
C3_TraversalSortedAndComplete ==
  (bt.cur.open /\ bt.cur.txn = "null")
  => /\ \A i \in 1..Len(hist.trav) - 1 : btree_cmp(TravKeys[i], TravKeys[i + 1]) < 0
     /\ hist.tend => /\ hist.last.errno = "ENOENT"
                     /\ {TravKeys[i] : i \in 1..Len(hist.trav)} = Present(hist.map)

\* A finished traversal has returned <<2, 3, 3>> before <<2, 3, 2>>.
C3_Witness ==
  /\ bt.cur.open /\ hist.tend
  /\ \E i \in 1..Len(hist.trav) - 1 :
       TravKeys[i] = <<2, 3, 3>> /\ TravKeys[i + 1] = <<2, 3, 2>>
  /\ bt.ub = {} /\ bt.ev = {}

\* C4: the pairs a full cursor traversal of the committed tree produces are
\* exactly the pairs of the reference map to which the same puts and dels
\* were applied.
C4_TraversalEqualsMap ==
  (bt.cur.open /\ bt.cur.txn = "null" /\ hist.tend)
  => /\ {hist.trav[i] : i \in 1..Len(hist.trav)}
          = {<<k, hist.map[k]>> : k \in Present(hist.map)}
     /\ Len(hist.trav) = Cardinality(Present(hist.map))

\* A finished traversal has produced <<2, 3, 3>>, which the map does not
\* hold, and has not produced <<2, 2, 3>>, which it holds.
C4_Witness ==
  /\ bt.cur.open /\ hist.tend
  /\ hist.map[<<2, 3, 3>>] = NoVal /\ hist.map[<<2, 2, 3>>] = <<7>>
  /\ \E i \in 1..Len(hist.trav) : hist.trav[i] = <<<<2, 3, 3>>, <<7>>>>
  /\ \A i \in 1..Len(hist.trav) : hist.trav[i][1] # <<2, 2, 3>>
  /\ bt.ub = {} /\ bt.ev = {}

---------------------------------------------------------------------------
(* Transactions *)

\* The calls of a write transaction and of a read-only transaction with
\* its cursor on one handle, and the transactions of a second process;
\* every system call succeeds.
NextTxn ==
  \/ \E rdonly \in BOOLEAN : InBudget /\ Begin(rdonly)
  \/ \E k \in Keys, v \in Values : InBudget /\ Put("w", k, v, AllOk)
  \/ \E k \in Keys : InBudget /\ Del("w", k, AllOk)
  \/ InBudget /\ Commit(AllOk)
  \/ \E t \in {"w", "r"} : InBudget /\ Abort(t)
  \/ \E k \in Keys : InBudget /\ Get("r", k)
  \/ InBudget /\ PeerBegin(FALSE)
  \/ InBudget /\ PeerAbort("w")
  \/ InBudget /\ CursorOpen("r")
  \/ \E op \in {"BT_FIRST", "BT_NEXT"} : InBudget /\ CursorGet(op, 1)
  \/ InBudget /\ CursorClose

SpecTxn == Init /\ [][NextTxn]_vars

\* C5: while a write transaction is active, a btree_txn_begin for writing
\* on the same handle, or by another process on the same file, fails with
\* EBUSY and leaves the active transaction, its dirty pages, the lock and
\* the file as they were.
C5_SecondWriterBusy ==
  (hist.last.op = "begin" /\ hist.last.t = "w"
     /\ (~hist.last.pre.txn.null \/ ~hist.last.pre.ptxn.null))
  => /\ hist.last.rc = BT_FAIL /\ hist.last.errno = "EBUSY"
     /\ bt.txn = hist.last.pre.txn /\ peer.txn = hist.last.pre.ptxn
     /\ DirtyPages(bt) = hist.last.pre.dirty
     /\ DirtyPages(peer) = hist.last.pre.pdirty
     /\ disk.lock = hist.last.pre.lock /\ disk.file = hist.last.pre.file

\* The other process was refused while the handle's write transaction had
\* dirty pages.
C5_Witness ==
  /\ hist.last.op = "begin" /\ hist.last.t = "w" /\ hist.last.rc = BT_FAIL
  /\ hist.last.pre.dirty # <<>>
  /\ hist.last.who = "B"

RestOfCursor(s) == TraverseFrom(s, "BT_NEXT", Cardinality(AllKeys) + 1)

---------------------------------------------------------------------------
(* A crash in a commit, and a reader of another process *)

\* What a step of btree_txn_commit leaves behind: the handle, the file, the
\* history and the place the commit has come to.
StepDone(s, h, at) ==
  /\ disk' = StoreDisk(s)
  /\ bt' = StoreHandle(s)
  /\ UNCHANGED peer
  /\ hist' = h
  /\ pc' = at

\* btree_txn_commit(txn) up to its first write: the checks and the padding.
\* A commit that has nothing to write returns here.
CommitStart ==
  /\ CanCall
  /\ ~bt.txn.null
  /\ With(Do("commit_check", <<Load(bt, disk), "w">>), LAMBDA c :
     IF c.r = "write"
     THEN With(Do("commit_fixpadding", <<c, IoOk>>), LAMBDA s :
          StepDone(s, [hist EXCEPT !.calls = @ + 1,
                                   !.last = Call("commit_start", "A", "w", <<>>, NoVal,
                                                 AllOk, s),
                                   !.pending = View(c, "w"),
                                   !.old = c.meta.root, !.new = c.txn.root],
                   [at |-> "write", wr |-> 0]))
     ELSE With(Do("btree_txn_commit", <<Load(bt, disk), "w", AllOk>>), LAMBDA s :
          Done("A", s, [hist EXCEPT !.last = Call("commit", "A", "w", <<>>, NoVal,
                                                  AllOk, s),
                                    !.map = hist.wmap, !.seen = FALSE], 0)))

\* The writev of the commit loop, a page at a time: the next page of the
\* round of up to BT_COMMIT_PAGES pages reaches the file; after the last
\* page of the round the written pages leave the dirty queue.
CommitPage ==
  /\ pc.at = "write" /\ bt.open
  /\ With(Load(bt, disk), LAMBDA s :
     LET n == MINIMUM(Len(s.txn.dirty_queue), BT_COMMIT_PAGES)
     IN  /\ pc.wr < n
         /\ With(AppendPages(s, <<PG(s, s.txn.dirty_queue[pc.wr + 1])>>, IoOk), LAMBDA s1 :
            With(IF pc.wr + 1 = n THEN Do("clear_dirty", <<s1, n>>) ELSE s1, LAMBDA s2 :
            StepDone(s2, [hist EXCEPT !.last = Call("commit_page", "A", "w", <<>>, NoVal,
                                                    AllOk, s2)],
                     IF pc.wr + 1 < n THEN [pc EXCEPT !.wr = @ + 1]
                     ELSE IF s2.txn.dirty_queue = <<>> THEN [at |-> "meta", wr |-> 0]
                     ELSE [at |-> "write", wr |-> 0]))))

\* The fsync of the data pages and the write of the meta page.
CommitMeta ==
  /\ pc.at = "meta" /\ bt.open
  /\ With(Load(bt, disk), LAMBDA s :
     With(Do("btree_write_meta", <<Do("btree_sync", <<s>>), s.txn.root, 0, IoOk>>), LAMBDA s1 :
     StepDone(s1, [hist EXCEPT !.last = Call("commit_meta", "A", "w", <<>>, NoVal,
                                             AllOk, s1)],
              [at |-> "sync", wr |-> 0])))

\* The fsync of the meta page and the return of btree_txn_commit.
CommitReturn ==
  /\ pc.at = "sync" /\ bt.open
  /\ With(Do("commit_done", <<Do("btree_sync", <<Load(bt, disk)>>)>>), LAMBDA s :
     StepDone(s, [hist EXCEPT !.last = Call("commit", "A", "w", <<>>, NoVal, AllOk, s),
                              !.map = hist.wmap, !.seen = FALSE,
                              !.committed = TRUE, !.csize = FileSize(s),
                              !.snap = View(s, "null"),
                              !.old = hist.new],
              Idle))

\* What a crash finds: the last successful commit and the commit under way.
CrashPre(cut) ==
  [cut |-> cut, len |-> Len(disk.file), at |-> pc.at,
   committed |-> hist.committed, csize |-> hist.csize,
   snap |-> hist.snap, pending |-> hist.pending,
   meta_in |-> pc.at = "sync" /\ cut = Len(disk.file)]

\* The system goes down and the file keeps its first cut pages, no fewer
\* than it had when the last successful commit had synced its meta page;
\* both processes open the file again with btree_open_fd.
Crash(cut) ==
  /\ bt.open
  /\ cut \in (hist.csize \div PSIZE)..Len(disk.file)
  /\ With(btree_open("A", [disk EXCEPT !.file = SubSeq(@, 1, cut), !.pad = 0,
                                       !.tail = GarbagePage, !.lock = "",
                                       !.synced = cut]), LAMBDA a :
     LET pre == CrashPre(cut)
         m == IF pre.meta_in THEN hist.wmap ELSE hist.map
     IN  /\ disk' = StoreDisk(a)
         /\ bt' = StoreHandle(a)
         /\ peer' = StoreHandle(btree_open("B", StoreDisk(a)))
         /\ hist' = [hist EXCEPT !.calls = @ + 1,
                                 !.last = [Call("crash", "A", "null", <<>>, NoVal, AllOk, a)
                                             EXCEPT !.pre = pre],
                                 !.map = m, !.wmap = m,
                                 !.trav = <<>>, !.tend = FALSE, !.seen = FALSE,
                                 !.committed = pre.committed \/ pre.meta_in,
                                 !.csize = IF pre.meta_in THEN cut * PSIZE ELSE @,
                                 !.snap = IF pre.meta_in THEN pre.pending ELSE @,
                                 !.old = a.meta.root, !.new = a.meta.root]
         /\ pc' = Idle)

\* A write transaction whose commit goes step by step, a crash at any step,
\* and a second process that begins read-only transactions at any step;
\* every system call succeeds.
NextCrash ==
  \/ InBudget /\ Begin(FALSE)
  \/ \E k \in Keys, v \in Values : InBudget /\ Put("w", k, v, AllOk)
  \/ \E k \in Keys : InBudget /\ Del("w", k, AllOk)
  \/ InBudget /\ CommitStart
  \/ CommitPage
  \/ CommitMeta
  \/ CommitReturn
  \/ \E cut \in 1..Len(disk.file) : InBudget /\ Crash(cut)
  \/ InBudget /\ PeerBegin(TRUE)
  \/ InBudget /\ PeerAbort("r")

SpecCrash == Init /\ [][NextCrash]_vars

RECURSIVE OverflowPresent(_, _, _)
OverflowPresent(file, pgno, left) ==
  \/ left <= 0
  \/ /\ pgno < Len(file) /\ file[pgno + 1].pgno = pgno
     /\ IS_OVERFLOW(file[pgno + 1])
     /\ OverflowPresent(file, file[pgno + 1].next, left - (PSIZE - PAGEHDRSZ))

\* Every page of the tree below page pgno is in the file, whole; depth is
\* the number of levels the tree may have.
RECURSIVE PagesPresent(_, _, _)
PagesPresent(file, pgno, depth) ==
  /\ depth > 0
  /\ pgno < Len(file) /\ file[pgno + 1].pgno = pgno
  /\ LET p == file[pgno + 1]
     IN  IF IS_BRANCH(p)
         THEN \A i \in 0..NUMKEYSP(p) - 1 :
                PagesPresent(file, NODEPTRP(p, i).p, depth - 1)
         ELSE /\ IS_LEAF(p)
              /\ \A i \in 0..NUMKEYSP(p) - 1 :
                   F_ISSET(NODEPTRP(p, i).flags, F_BIGDATA)
                   => OverflowPresent(file, NODEPTRP(p, i).data[1], NODEPTRP(p, i).p)

Complete(file, root) == root = P_INVALID \/ PagesPresent(file, root, Len(file))

\* C9: a read-only btree_txn_begin of another process, at any step of a
\* commit or between commits, succeeds with the root of the commit before
\* or the root of the commit under way, and every page of the tree under
\* the root it has is whole in the file.
C9_ReaderSeesOldOrNewRoot ==
  (hist.last.op = "begin" /\ hist.last.who = "B" /\ hist.last.t = "r")
  => /\ hist.last.rc = BT_SUCCESS
     /\ peer.rtxn.root \in {hist.old, hist.new}
     /\ Complete(disk.file, peer.rtxn.root)

\* The first commit into a new file has written a page and not yet its
\* meta page, and the read-only begin of the other process has failed
\* with EIO.
C9_Witness ==
  /\ hist.last.op = "begin" /\ hist.last.who = "B" /\ hist.last.t = "r"
  /\ hist.last.rc = BT_FAIL /\ hist.last.errno = "EIO"
  /\ pc.at \in {"write", "meta"}
  /\ ~hist.committed
  /\ bt.ub = {} /\ peer.ub = {}

\* Once the file holds a meta page, the read-only begin of the other
\* process succeeds at every step with the old or the new root and a whole
\* tree under it.
ReaderSeesOldOrNewRootOnceCommitted ==
  (hist.last.op = "begin" /\ hist.last.who = "B" /\ hist.last.t = "r"
     /\ hist.committed)
  => /\ hist.last.rc = BT_SUCCESS
     /\ peer.rtxn.root \in {hist.old, hist.new}
     /\ Complete(disk.file, peer.rtxn.root)
     /\ (pc.at \in {"write", "meta"} => peer.rtxn.root = hist.old)
     /\ (pc.at = "sync" => peer.rtxn.root = hist.new)

---------------------------------------------------------------------------
(* Calls a transaction refuses *)

\* A value that is stored in the leaf, one byte short of the size from
\* which a value goes to overflow pages.
WideValue == [i \in 1..(PSIZE \div BT_MINKEYS - 1) |-> 9]

\* What a btree_txn_commit finds: the flags of its transaction and the file.
CommitPre(t) ==
  [error |-> TxnOf(bt, t).error, rdonly |-> TxnOf(bt, t).rdonly,
   dirty |-> Len(TxnOf(bt, t).dirty_queue), file |-> disk.file]

\* btree_txn_commit(txn) on the write or the read-only transaction; the
\* caller has closed the cursors of txn.
CommitOf(t) ==
  /\ CanCall
  /\ ~TxnOf(bt, t).null
  /\ ~(bt.cur.open /\ bt.cur.txn = t)
  /\ With(Do("btree_txn_commit", <<Load(bt, disk), t, AllOk>>), LAMBDA s :
     Done("A", s, [hist EXCEPT !.last = [Call("commit", "A", t, <<>>, NoVal, AllOk, s)
                                          EXCEPT !.pre = CommitPre(t)],
                               !.map = IF s.rc = BT_SUCCESS THEN hist.wmap ELSE @,
                               !.seen = FALSE], 0))

\* Write and read-only transactions on one handle; puts, dels and commits
\* through both of them; every system call succeeds.
NextErr ==
  \/ \E rdonly \in BOOLEAN : InBudget /\ Begin(rdonly)
  \/ \E k \in Keys, v \in Values \cup {WideValue} : InBudget /\ Put("w", k, v, AllOk)
  \/ \E k \in Keys : InBudget /\ Del("w", k, AllOk)
  \/ \E k \in Keys, v \in Values : InBudget /\ ~bt.rtxn.null /\ Put("r", k, v, AllOk)
  \/ \E k \in Keys : InBudget /\ ~bt.rtxn.null /\ Del("r", k, AllOk)
  \/ \E t \in {"w", "r"} : InBudget /\ CommitOf(t)
  \/ InBudget /\ Abort("w")

SpecErr == Init /\ [][NextErr]_vars

C12_RdonlyWriteIsPerm ==
  (hist.last.op \in {"put", "del"} /\ hist.last.t = "r")
  => (hist.last.rc = BT_FAIL /\ hist.last.errno = "EPERM")

\* C12: a put or del through a read-only transaction fails with EINVAL and
\* changes nothing: not the file, not the tree, not the page cache, not the
\* read-only transaction and not the write transaction of the handle.
C12_RdonlyWriteRefused ==
  [][(hist'.calls = hist.calls + 1 /\ hist'.last.op \in {"put", "del"}
        /\ hist'.last.t = "r")
     => /\ hist'.last.rc = BT_FAIL /\ hist'.last.errno = "EINVAL"
        /\ disk' = disk
        /\ [bt' EXCEPT !.errno = bt.errno] = bt]_vars

\* A put through the read-only transaction was refused while the write
\* transaction of the handle had dirty pages.
C12_Witness ==
  /\ hist.last.op = "put" /\ hist.last.t = "r"
  /\ hist.last.rc = BT_FAIL /\ hist.last.errno = "EINVAL"
  /\ ~bt.rtxn.null /\ ~bt.txn.null /\ bt.txn.dirty_queue # <<>>

---------------------------------------------------------------------------
(* Positioning a cursor *)

\* Keys a cursor is positioned with: keys of the trees of the model and
\* keys between, below and above them.
PosKeys == {<<1>>, <<1, 1, 2>>, <<1, 2, 2>>, <<1, 4>>, <<2, 2>>, <<2, 2, 3>>,
            <<2, 3>>, <<2, 3, 3>>, <<3, 1>>, <<3, 2>>}

\* The smallest key of map m that is not below key: <<>> when there is none.
LeastAtLeast(m, key) ==
  LET S == {k \in Present(m) : btree_cmp(k, key) >= 0}
  IN  IF S = {} THEN <<>>
      ELSE CHOOSE k \in S : \A x \in S : btree_cmp(k, x) <= 0

\* The pairs of map m in the order of their keys.
RECURSIVE PairsFrom(_, _)
PairsFrom(m, S) ==
  IF S = {} THEN <<>>
  ELSE LET k == CHOOSE k \in S : \A x \in S : btree_cmp(k, x) <= 0
       IN  << <<k, m[k]>> >> \o PairsFrom(m, S \ {k})

SortedPairs(m) == PairsFrom(m, Present(m))

\* What a btree_cursor_get gives: the pair, or the errno it fails with.
Got(s) ==
  IF s.rc = BT_SUCCESS THEN [rc |-> BT_SUCCESS, errno |-> "", key |-> s.r.key,
                             data |-> s.r.data]
  ELSE [rc |-> BT_FAIL, errno |-> s.errno, key |-> <<>>, data |-> NoVal]

\* What a btree_cursor_get finds: the cursor, and what BT_FIRST gives in
\* its place.
CursorPre ==
  [stack |-> Len(bt.cur.stack), initialized |-> bt.cur.initialized,
   eof |-> bt.cur.eof, ub |-> bt.ub,
   first |-> Got(Do("btree_cursor_get", <<Load(bt, disk), <<>>, "BT_FIRST">>)),
   sound |-> Traverse(Load(bt, disk), bt.cur.txn) = SortedPairs(hist.map)]

\* btree_cursor_get(cursor, key, data, op) with any op and key, on the
\* cursor of the handle.
CursorCall(op, key) ==
  /\ CanCall
  /\ bt.cur.open
  /\ With(Do("btree_cursor_get", <<Load(bt, disk), key, op>>), LAMBDA s :
     Done("A", s, [hist EXCEPT !.last = [Call(op, "A", bt.cur.txn, key, NoVal, AllOk, s)
                                           EXCEPT !.pre = CursorPre, !.val = Got(s)]], 0))

\* The calls of a run that positions a cursor: the writes come first.
PosWrites == 1
PosCalls == 5

\* Keys BT_CURSOR_EXACT is called with: none, an absent and a present one.
ExactKeys == {<<>>, <<2, 2>>, <<2, 3>>}

\* Committed puts and deletes, and then a cursor without a transaction
\* that is positioned and moved in any order.
NextPos ==
  \/ \E k \in Keys, v \in Values :
       hist.calls < PosWrites /\ ~bt.cur.open /\ Put("null", k, v, AllOk)
  \/ \E k \in Keys : hist.calls < PosWrites /\ ~bt.cur.open /\ Del("null", k, AllOk)
  \/ hist.calls < PosCalls /\ ~bt.cur.open /\ CursorOpen("null")
  \/ \E k \in PosKeys : hist.calls < PosCalls /\ CursorCall("BT_CURSOR", k)
  \/ \E k \in ExactKeys : hist.calls < PosCalls /\ CursorCall("BT_CURSOR_EXACT", k)
  \/ hist.calls < PosCalls /\ CursorCall("BT_NEXT", <<>>)
  \/ hist.calls < PosCalls /\ CursorCall("BT_FIRST", <<>>)

SpecPos == Init /\ [][NextPos]_vars

\* BT_CURSOR on a tree whose traversal gives the pairs put and not deleted:
\* the call returns the smallest such key that is not below the key given
\* and leaves the cursor on it, and fails with ENOENT when there is none.
PositionLeastAtLeastOnSoundTree ==
  (hist.last.op = "BT_CURSOR" /\ hist.last.pre.sound)
  => LET k == LeastAtLeast(hist.map, hist.last.key)
     IN  IF k = <<>>
         THEN hist.last.val.rc = BT_FAIL /\ hist.last.val.errno = "ENOENT"
         ELSE /\ hist.last.val.rc = BT_SUCCESS
              /\ hist.last.val.key = k /\ hist.last.val.data = hist.map[k]
              /\ bt.cur.stack # <<>>

\* A BT_CURSOR call with an absent key that ends on the first record of a
\* leaf other than the leftmost one of a tree of depth two.
PositionInSibling ==
  /\ hist.last.op = "BT_CURSOR" /\ hist.last.pre.sound
  /\ hist.last.val.rc = BT_SUCCESS
  /\ hist.last.val.key # hist.last.key
  /\ Len(bt.cur.stack) = 2
  /\ bt.cur.stack[1].ki = 0 /\ bt.cur.stack[2].ki > 0

\* C13: btree_cursor_get with BT_CURSOR and a key returns the smallest
\* present key that is not below the key, with its value, and fails with
\* ENOENT exactly when no present key is at or above the key.
C13_PositionLeastAtLeast ==
  hist.last.op = "BT_CURSOR"
  => LET k == LeastAtLeast(hist.map, hist.last.key)
     IN  IF k = <<>>
         THEN hist.last.val.rc = BT_FAIL /\ hist.last.val.errno = "ENOENT"
         ELSE /\ hist.last.val.rc = BT_SUCCESS
              /\ hist.last.val.key = k /\ hist.last.val.data = hist.map[k]

\* A BT_CURSOR call that succeeds with another key than the smallest one
\* put, not deleted and not below the key given.
C13_Witness ==
  /\ hist.last.op = "BT_CURSOR"
  /\ hist.last.val.rc = BT_SUCCESS
  /\ LeastAtLeast(hist.map, hist.last.key) # <<>>
  /\ hist.last.val.key # LeastAtLeast(hist.map, hist.last.key)
  /\ hist.last.pre.ub = {} /\ bt.ub = {}

\* C14: btree_cursor_get with BT_NEXT on a cursor whose stack is empty does
\* what BT_FIRST does, whether the cursor was just opened or a failed
\* BT_CURSOR or BT_CURSOR_EXACT emptied the stack of a positioned cursor.
C14_NextOnEmptyStackIsFirst ==
  (hist.last.op = "BT_NEXT" /\ hist.last.pre.stack = 0)
  => /\ bt.ub = hist.last.pre.ub
     /\ hist.last.val = hist.last.pre.first

\* A BT_NEXT on a cursor that was positioned and whose stack a BT_CURSOR or
\* BT_CURSOR_EXACT with an invalid key has emptied since: btree_cursor_next
\* reads through the null top of the stack.
C14_Witness ==
  /\ hist.last.op = "BT_NEXT"
  /\ hist.last.pre.stack = 0 /\ hist.last.pre.initialized /\ ~hist.last.pre.eof
  /\ hist.last.pre.ub = {}
  /\ "null-deref" \in bt.ub

\* BT_NEXT on a cursor no call has positioned yet does what BT_FIRST does.
NextOnFreshCursorIsFirst ==
  (hist.last.op = "BT_NEXT" /\ ~hist.last.pre.initialized)
  => /\ bt.ub = hist.last.pre.ub
     /\ hist.last.val = hist.last.pre.first

\* A BT_NEXT on a cursor at its end whose stack was emptied: it fails where
\* BT_FIRST gives the first pair.
NextAtEofOnEmptyStack ==
  /\ hist.last.op = "BT_NEXT"
  /\ hist.last.pre.stack = 0 /\ hist.last.pre.eof
  /\ hist.last.val.rc = BT_FAIL /\ hist.last.pre.first.rc = BT_SUCCESS

---------------------------------------------------------------------------
(* Compacting a database *)

\* A value that takes two overflow pages.
BigValue == [i \in 1..(PSIZE - PAGEHDRSZ + 8) |-> (i % 5) + 1]

\* The calls of a run with compactions.
CompactCalls == 3

\* The database opened at the path: the file a btree_compact has put
\* there, or else the file the handles have open.
AtPath(d) ==
  IF d.compact = <<>> THEN d
  ELSE [NoFile EXCEPT !.file = d.compact, !.synced = Len(d.compact)]

\* Every page handle h has cached and not dirtied is the page the file
\* holds under its number.
CacheIsFile(h, d) ==
  \A id \in DOMAIN h.heap :
    h.heap[id].dirty = 0
    => /\ h.heap[id].pgno < Len(d.file)
       /\ d.file[h.heap[id].pgno + 1] = h.heap[id].page

\* What a btree_compact finds: the traversal of the database as a handle
\* opened for it gives it, and what the compacting handle reads.
CompactPre ==
  [trav |-> Traverse(btree_open("C", [disk EXCEPT !.compact = <<>>]), "null"),
   own |-> Traverse(Load(bt, disk), "null"), view |-> View(Load(bt, disk), "null"),
   file |-> disk.file, compact |-> disk.compact, compacted |-> hist.compacted,
   root |-> bt.meta.root, busy |-> ~bt.txn.null, cached |-> CacheIsFile(bt, disk)]

\* btree_compact(bt) by the handle of the model.
Compact(io) ==
  /\ CanCall
  /\ With(btree_compact(Load(bt, disk), io), LAMBDA s :
     Done("A", s, [hist EXCEPT !.last = [Call("compact", "A", "null", <<>>, NoVal, AllOk, s)
                                           EXCEPT !.pre = CompactPre, !.val = <<io>>],
                               !.compacted = @ \/ s.rc = BT_SUCCESS], 0))

\* btree_close by both processes, no transaction or cursor being open, and
\* btree_open of the path by both.
Reopen ==
  /\ CanCall /\ peer.open
  /\ bt.txn.null /\ bt.rtxn.null /\ ~bt.cur.open
  /\ peer.txn.null /\ peer.rtxn.null
  /\ With(btree_open("A", AtPath(disk)), LAMBDA a :
     /\ disk' = StoreDisk(a)
     /\ bt' = StoreHandle(a)
     /\ peer' = StoreHandle(btree_open("B", StoreDisk(a)))
     /\ hist' = [hist EXCEPT !.calls = @ + 1,
                             !.last = [Call("reopen", "A", "null", <<>>, NoVal, AllOk, a)
                                         EXCEPT !.pre = [compacted |-> hist.compacted,
                                                         view |-> View(Load(bt, disk), "null")]],
                             !.compacted = FALSE]
     /\ UNCHANGED pc)

InCompactBudget == hist.calls < CompactCalls

\* Committed puts and deletes with small and large values, compactions,
\* and what the two processes read from the replaced file afterwards.
NextCompact ==
  \/ \E k \in Keys, v \in {<<7>>, BigValue} : InCompactBudget /\ Put("null", k, v, AllOk)
  \/ \E k \in Keys : InCompactBudget /\ Del("null", k, AllOk)
  \/ \E io \in CompactIo : InCompactBudget /\ Compact(io)
  \/ \E rdonly \in BOOLEAN : InCompactBudget /\ Begin(rdonly)
  \/ \E tx \in {"w", "r"} : InCompactBudget /\ Abort(tx)
  \/ \E k \in Keys : InCompactBudget /\ hist.compacted /\ Get("null", k)
  \/ InCompactBudget /\ hist.compacted /\ PeerBegin(TRUE)
  \/ \E k \in Keys : InCompactBudget /\ hist.compacted /\ PeerGet("null", k)
  \/ InCompactBudget /\ Reopen

SpecCompact == Init /\ [][NextCompact]_vars

\* C15: after a successful btree_compact, the traversal of the database
\* opened at the path gives the keys and values, those on overflow pages
\* included, that the traversal of the compacted database gave before.
C15_CompactKeepsTraversal ==
  (hist.last.op = "compact" /\ hist.last.rc = BT_SUCCESS)
  => With(btree_open("C", AtPath(disk)), LAMBDA c :
     /\ c.open /\ disk.compact # <<>>
     /\ Traverse(c, "null") = hist.last.pre.trav)

\* The same for a compaction by a handle whose cache holds what the file
\* holds.
CompactKeepsTraversalOfCleanHandle ==
  (hist.last.op = "compact" /\ hist.last.rc = BT_SUCCESS /\ hist.last.pre.cached)
  => With(btree_open("C", AtPath(disk)), LAMBDA c :
     /\ c.open /\ disk.compact # <<>>
     /\ Traverse(c, "null") = hist.last.pre.trav
     /\ Traverse(c, "null") = hist.last.pre.own
     /\ View(c, "null") = hist.last.pre.view)


\* A successful btree_compact after which the database at the path has lost
\* a pair the compacted file held.
C15_Witness ==
  /\ hist.last.op = "compact" /\ hist.last.rc = BT_SUCCESS
  /\ hist.last.pre.trav # <<>>
  /\ hist.last.pre.trav = SortedPairs(hist.map)
  /\ Traverse(btree_open("C", AtPath(disk)), "null") = <<>>
  /\ bt.ub = {}

\* A successful btree_compact of a tree of depth two that holds a value on
\* two overflow pages.
CompactOfDeepTree ==
  /\ hist.last.op = "compact" /\ hist.last.rc = BT_SUCCESS
  /\ bt.meta.depth >= 2
  /\ \E i \in 1..Len(hist.last.pre.trav) : hist.last.pre.trav[i][2] = BigValue
  /\ Len(hist.last.pre.trav) >= 4
  /\ Len(disk.compact) < Len(hist.last.pre.file)

\* The last page of a file is a valid meta page with the tombstone flag.
TombstoneLast(file) ==
  /\ file # <<>>
  /\ btree_is_meta_page(file[Len(file)])
  /\ F_ISSET(file[Len(file)].meta.flags, BT_TOMBSTONE)

BeginsOnReplacedFile ==
  /\ hist.compacted
  /\ hist.last.op = "begin" /\ hist.last.who = "B" /\ hist.last.rc = BT_SUCCESS
  /\ TombstoneLast(disk.file)

---------------------------------------------------------------------------
(* Putting a pair twice *)

\* The calls of a run that puts pairs again.
PutCalls == 4

\* What a put finds: what the gets and a traversal give, the counter of
\* entries, whether the key is present, and the call before.
PutPre(k) ==
  [view |-> View(Load(bt, disk), "null"), trav |-> Traverse(Load(bt, disk), "null"),
   entries |-> bt.meta.entries, had |-> GetVal(Load(bt, disk), "null", k) # NoVal,
   op |-> hist.last.op, key |-> hist.last.key, val |-> hist.last.val,
   rc |-> hist.last.rc, sound |-> Traverse(Load(bt, disk), "null") = SortedPairs(hist.map)]

\* btree_txn_put(bt, NULL, key, data, 0), with what it finds kept.
PutSeen(k, v) ==
  /\ CanCall
  /\ With(Do("btree_txn_put", <<Load(bt, disk), "null", k, Val(v), AllOk>>), LAMBDA s :
     Done("A", s, [hist EXCEPT !.last = [Call("put", "A", "null", k, v, AllOk, s)
                                           EXCEPT !.pre = PutPre(k)],
                     !.map = IF s.rc = BT_SUCCESS THEN [@ EXCEPT ![k] = v] ELSE @,
                     !.wmap = IF s.rc = BT_SUCCESS THEN [hist.map EXCEPT ![k] = v] ELSE @,
                     !.seen = FALSE], 1))

\* Committed puts, of small and large values, and deletes.
NextPut ==
  \/ \E k \in Keys, v \in Values \cup {BigValue} : hist.calls < PutCalls /\ PutSeen(k, v)
  \/ \E k \in Keys : hist.calls < PutCalls /\ Del("null", k, AllOk)

SpecPut == Init /\ [][NextPut]_vars

\* The put is the second of two successful puts of the same pair, one right
\* after the other.
PutAgain ==
  /\ hist.last.op = "put" /\ hist.last.rc = BT_SUCCESS
  /\ hist.last.pre.op = "put" /\ hist.last.pre.rc = BT_SUCCESS
  /\ hist.last.pre.key = hist.last.key /\ hist.last.pre.val = hist.last.val

\* C17: after put(k,v); put(k,v) every get and the traversal give what they
\* gave after the first of the two puts.
C17_PutIsIdempotent ==
  PutAgain
  => /\ View(Load(bt, disk), "null") = hist.last.pre.view
     /\ Traverse(Load(bt, disk), "null") = hist.last.pre.trav

\* A second put of a pair with a large value into a tree of depth two.
C17_Witness ==
  /\ PutAgain
  /\ hist.last.val = BigValue
  /\ bt.meta.depth >= 2
  /\ hist.last.pre.view[hist.last.key] = BigValue

\* C18: a put of a key that is present leaves meta.entries as it is, so
\* that two puts of a pair with a new key raise it by one.
C18_EntriesCountsKeys ==
  (hist.last.op = "put" /\ hist.last.rc = BT_SUCCESS /\ hist.last.pre.had)
  => bt.meta.entries = hist.last.pre.entries

\* A successful put of a key that a get finds before the call, after which
\* meta.entries is one more than before.
C18_Witness ==
  /\ hist.last.op = "put" /\ hist.last.rc = BT_SUCCESS
  /\ hist.last.pre.had /\ hist.last.pre.sound
  /\ bt.meta.entries = hist.last.pre.entries + 1
  /\ bt.ub = {}

---------------------------------------------------------------------------
(* Values on overflow pages *)

\* The calls of a run with large values.
BigCalls == 4

\* Keys that are put with a large value: two of them are in the trees the
\* model starts from.
BigKeys == {<<2, 2, 3>>, <<2, 3>>, <<1, 1, 2>>}

\* A value btree_add_node puts on overflow pages.
IsBig(v) == v # NoVal /\ Len(v) >= PSIZE \div BT_MINKEYS

\* The page number of the leaf that holds key k, P_INVALID if none does.
LeafOf(s, k) ==
  With(Do("btree_search_page", <<s, "null", k, FALSE, FALSE>>), LAMBDA f :
  IF f.rc # BT_SUCCESS \/ f.r = NULL THEN P_INVALID
  ELSE With(Do("btree_search_node", <<f, f.r, k>>), LAMBDA n :
       IF ~n.null /\ n.exact THEN MP(f, f.r).pgno ELSE P_INVALID))

\* Where the keys with large values are before a call.
BigPre ==
  [leaf |-> [k \in BigKeys |-> LeafOf(Load(bt, disk), k)],
   leaves |-> bt.meta.leaf_pages, depth |-> bt.meta.depth,
   big |-> {k \in BigKeys : IsBig(hist.map[k])}]

PutBig(k, v) ==
  /\ CanCall
  /\ With(Do("btree_txn_put", <<Load(bt, disk), "null", k, Val(v), AllOk>>), LAMBDA s :
     Done("A", s, [hist EXCEPT !.last = [Call("put", "A", "null", k, v, AllOk, s)
                                           EXCEPT !.pre = BigPre],
                     !.map = IF s.rc = BT_SUCCESS THEN [@ EXCEPT ![k] = v] ELSE @,
                     !.wmap = IF s.rc = BT_SUCCESS THEN [hist.map EXCEPT ![k] = v] ELSE @,
                     !.seen = FALSE], 1))

DelBig(k) ==
  /\ CanCall
  /\ With(Do("btree_txn_del", <<Load(bt, disk), "null", k, AllOk>>), LAMBDA s :
     Done("A", s, [hist EXCEPT !.last = [Call("del", "A", "null", k, NoVal, AllOk, s)
                                           EXCEPT !.pre = BigPre],
                     !.map = IF s.rc = BT_SUCCESS THEN [@ EXCEPT ![k] = NoVal] ELSE @,
                     !.wmap = IF s.rc = BT_SUCCESS THEN [hist.map EXCEPT ![k] = NoVal] ELSE @,
                     !.seen = FALSE], 1))

\* Committed puts of large and small values, deletes, and reopening.
NextBig ==
  \/ \E k \in BigKeys : hist.calls < BigCalls /\ PutBig(k, BigValue)
  \/ \E k \in Keys : hist.calls < BigCalls /\ PutBig(k, <<8, 8, 8, 8>>)
  \/ \E k \in BigKeys : hist.calls < BigCalls /\ DelBig(k)
  \/ hist.calls < BigCalls /\ Reopen

SpecBig == Init /\ [][NextBig]_vars

\* C19: a get of a key that was put with a value on overflow pages returns
\* the bytes that were put, also after a split, a merge or a move has put
\* the node on another leaf, and after the file was opened again.
C19_OverflowRoundTrip ==
  \A k \in BigKeys :
    IsBig(hist.map[k]) => GetVal(Load(bt, disk), "null", k) = hist.map[k]

\* A key put with a large value that a get does not find, while the
\* traversal gives the value under a key that was never put.
C19_Witness ==
  /\ \E k \in BigKeys :
       /\ IsBig(hist.map[k])
       /\ GetVal(Load(bt, disk), "null", k) = NoVal
  /\ \E i \in 1..Len(Traverse(Load(bt, disk), "null")) :
       LET kv == Traverse(Load(bt, disk), "null")[i]
       IN  kv[2] = BigValue /\ kv[1] \in AllKeys /\ hist.map[kv[1]] = NoVal
  /\ bt.ub = {}

\* The same on a tree whose traversal gives the pairs put and not deleted.
OverflowRoundTripOnSoundTree ==
  Traverse(Load(bt, disk), "null") = SortedPairs(hist.map)
  => \A k \in BigKeys :
       IsBig(hist.map[k]) => GetVal(Load(bt, disk), "null", k) = hist.map[k]

\* A put that splits a leaf of a tree that holds a large value, which a get
\* returns afterwards.
BigAfterSplit ==
  /\ hist.last.op = "put" /\ hist.last.rc = BT_SUCCESS
  /\ bt.meta.leaf_pages > hist.last.pre.leaves
  /\ \E k \in hist.last.pre.big \ {hist.last.key} :
       GetVal(Load(bt, disk), "null", k) = BigValue

\* The file is opened again and a get returns a large value.
BigAfterReopen ==
  /\ hist.last.op = "reopen" /\ bt.open
  /\ \E k \in BigKeys : IsBig(hist.map[k]) /\ GetVal(Load(bt, disk), "null", k) = BigValue

---------------------------------------------------------------------------
(* The meta pages of a file *)

\* The valid meta pages of a file, by their page numbers.
MetaPages(file) == {i \in 1..Len(file) - 1 : btree_is_meta_page(file[i + 1])}

\* prev_meta of every valid meta page is P_INVALID or the number of an
\* earlier valid meta page.
MetaChain(file) ==
  \A i \in MetaPages(file) :
    \/ file[i + 1].meta.prev_meta = P_INVALID
    \/ /\ file[i + 1].meta.prev_meta < i
       /\ file[i + 1].meta.prev_meta \in MetaPages(file)

\* C20: a file that holds a commit has a valid meta page, which a scan
\* backward from its end finds, and prev_meta of every valid meta page is
\* P_INVALID or the page number of an earlier valid meta page.
C20_MetaChain ==
  /\ bt.meta.revisions > 0 => MetaPages(disk.file) # {}
  /\ MetaChain(disk.file)
  /\ MetaChain(disk.compact)

\* The meta page a successful put has written last names in prev_meta the
\* root page of the revision before, a leaf or branch page.
C20_Witness ==
  /\ hist.last.op = "put" /\ hist.last.rc = BT_SUCCESS
  /\ btree_is_meta_page(disk.file[Len(disk.file)])
  /\ LET prev == disk.file[Len(disk.file)].meta.prev_meta
     IN  /\ prev # P_INVALID /\ prev < Len(disk.file)
         /\ F_ISSET(disk.file[prev + 1].flags, P_LEAF) \/ F_ISSET(disk.file[prev + 1].flags, P_BRANCH)
         /\ prev \notin MetaPages(disk.file)

\* A file that holds more than its header ends, after every call, with a
\* valid meta page: the scan backward from the end finds it at once.
CommittedFileEndsWithMeta ==
  (bt.open /\ bt.txn.null /\ Len(disk.file) > 1)
  => btree_is_meta_page(disk.file[Len(disk.file)])

---------------------------------------------------------------------------
(* The file as the calls leave it *)

\* The calls of a run on a file that a crash may have torn.
FileCalls == 4

\* The bytes a crash leaves of the page that was being written: the page
\* header and part of the body.
TornPads == {PSIZE \div 2}

InFileBudget == hist.calls < FileCalls

HandleOf(who) == IF who = "A" THEN bt ELSE peer

\* What a call of process who finds: the file and the write transaction.
FilePre(who) ==
  [file |-> disk.file, pad |-> disk.pad, root |-> HandleOf(who).meta.root,
   fix |-> HandleOf(who).fixpadding, next |-> HandleOf(who).txn.next_pgno,
   dirty |-> DirtyPages(HandleOf(who)), null |-> HandleOf(who).txn.null]

FileCall(op, who, t, key, val, io, s) ==
  [Call(op, who, t, key, val, io, s) EXCEPT !.pre = FilePre(who)]

\* btree_txn_put by either process; the other process uses no transaction
\* of its own.
FilePut(who, t, k, v, io) ==
  /\ CanCall /\ peer.open
  /\ t = "w" => (who = "A" /\ ~bt.txn.null /\ io = AllOk)
  /\ With(Do("btree_txn_put", <<Load(HandleOf(who), disk), t, k, Val(v), io>>), LAMBDA s :
     With(s.rc = BT_SUCCESS, LAMBDA ok :
     Done(who, s, [hist EXCEPT !.last = FileCall("put", who, t, k, v, io, s),
                     !.map = IF ok /\ t = "null" THEN [@ EXCEPT ![k] = v] ELSE @,
                     !.wmap = IF ok /\ t = "w" THEN [@ EXCEPT ![k] = v] ELSE @], 1)))

\* btree_txn_del by the handle of the model.
FileDel(t, k, io) ==
  /\ CanCall
  /\ t = "w" => (~bt.txn.null /\ io = AllOk)
  /\ With(Do("btree_txn_del", <<Load(bt, disk), t, k, io>>), LAMBDA s :
     With(s.rc = BT_SUCCESS, LAMBDA ok :
     Done("A", s, [hist EXCEPT !.last = FileCall("del", "A", t, k, NoVal, io, s),
                     !.map = IF ok /\ t = "null" THEN [@ EXCEPT ![k] = NoVal] ELSE @,
                     !.wmap = IF ok /\ t = "w" THEN [@ EXCEPT ![k] = NoVal] ELSE @], 1)))

\* btree_txn_begin for writing.
FileBegin ==
  /\ CanCall
  /\ With(Do("btree_txn_begin", <<Load(bt, disk), FALSE>>), LAMBDA s :
     Done("A", s, [hist EXCEPT !.last = FileCall("begin", "A", "w", <<>>, NoVal, AllOk, s),
                               !.wmap = IF s.rc = BT_SUCCESS THEN hist.map ELSE @], 0))

\* btree_txn_commit of the write transaction.
FileCommit(io) ==
  /\ CanCall
  /\ ~bt.txn.null
  /\ With(Do("btree_txn_commit", <<Load(bt, disk), "w", io>>), LAMBDA s :
     Done("A", s, [hist EXCEPT !.last = FileCall("commit", "A", "w", <<>>, NoVal, io, s),
                               !.map = IF s.rc = BT_SUCCESS THEN hist.wmap ELSE @], 0))

\* btree_txn_abort of the write transaction.
FileAbort ==
  /\ CanCall
  /\ ~bt.txn.null
  /\ With(Ok(Do("btree_txn_abort", <<Load(bt, disk), "w">>)), LAMBDA s :
     Done("A", s, [hist EXCEPT !.last = FileCall("abort", "A", "w", <<>>, NoVal, AllOk, s)],
          0))

\* btree_compact by the handle of the model.
FileCompact(io) ==
  /\ CanCall
  /\ With(btree_compact(Load(bt, disk), io), LAMBDA s :
     Done("A", s, [hist EXCEPT !.last = [FileCall("compact", "A", "null", <<>>, NoVal,
                                                  AllOk, s) EXCEPT !.val = <<io>>],
                               !.compacted = @ \/ s.rc = BT_SUCCESS], 0))

\* The page a commit was writing when the system went down, of which the
\* file has the first pad bytes.
TornPage(pgno) == EmptyPage(pgno, P_LEAF)

\* The system goes down in the first write of a commit, which leaves pad
\* bytes of its page at the end of the file; both processes open the file
\* again with btree_open_fd.
Tear(pad) ==
  /\ CanCall /\ peer.open
  /\ disk.pad = 0 /\ disk.compact = <<>>
  /\ With(btree_open("A", [disk EXCEPT !.pad = pad, !.tail = TornPage(Len(disk.file)),
                                       !.lock = "", !.synced = Len(disk.file)]), LAMBDA a :
     /\ disk' = StoreDisk(a)
     /\ bt' = StoreHandle(a)
     /\ peer' = StoreHandle(btree_open("B", StoreDisk(a)))
     /\ hist' = [hist EXCEPT !.calls = @ + 1,
                             !.last = FileCall("tear", "A", "null", <<>>, NoVal, AllOk, a),
                             !.wmap = hist.map]
     /\ UNCHANGED pc)

\* Puts, dels and compactions with and without a transaction, writes that
\* fail, the puts of a second process, and a crash that tears the file.
NextFile ==
  \/ \E k \in Keys, io \in IoCases : InFileBudget /\ FilePut("A", "null", k, <<7>>, io)
  \/ \E k \in Keys : InFileBudget /\ FilePut("A", "w", k, <<7>>, AllOk)
  \/ \E k \in Keys : InFileBudget /\ FilePut("B", "null", k, <<8, 8, 8, 8>>, AllOk)
  \/ \E k \in Keys, t \in {"null", "w"} : InFileBudget /\ FileDel(t, k, AllOk)
  \/ InFileBudget /\ FileBegin
  \/ \E io \in IoCases : InFileBudget /\ FileCommit(io)
  \/ InFileBudget /\ FileAbort
  \/ \E io \in {"ok", "tombstone"} : InFileBudget /\ FileCompact(io)
  \/ \E pad \in TornPads : InFileBudget /\ Tear(pad)

SpecFile == Init /\ [][NextFile]_vars

\* The pages a step has added to the file.
Added(old, new) == SubSeq(new, Len(old) + 1, Len(new))

\* C21: no call changes a page that is in the file, nor the bytes of a torn
\* page at its end: a call adds pages at the end or leaves the file as it
\* is.  A page a call adds carries a page number that no page before it in
\* the file has, so that a new version of a page never takes the place of
\* the old one under a root written earlier.
C21_AppendOnly ==
  [][(hist'.calls = hist.calls + 1 /\ hist'.last.op # "tear")
     => /\ Len(disk'.file) >= Len(disk.file)
        /\ SubSeq(disk'.file, 1, Len(disk.file)) = disk.file
        /\ disk.pad > 0
           => \/ /\ disk'.pad = disk.pad /\ disk'.tail = disk.tail
                 /\ disk'.file = disk.file
              \/ /\ disk'.pad = 0 /\ Len(disk'.file) > Len(disk.file)
                 /\ disk'.file[Len(disk.file) + 1].pgno = disk.tail.pgno
        /\ \A i \in Len(disk.file) + 1..Len(disk'.file) :
             \/ disk'.file[i].flags = 0
             \/ disk'.file[i].pgno >= Len(disk.file)]_vars

\* A put has written a new version of the root page of a tree that had one,
\* and the old root page lies in the file as it was.
C21_Witness ==
  /\ hist.last.op = "put" /\ hist.last.rc = BT_SUCCESS
  /\ hist.last.pre.root # P_INVALID
  /\ HandleOf(hist.last.who).meta.root > hist.last.pre.root
  /\ disk.file[hist.last.pre.root + 1] = hist.last.pre.file[hist.last.pre.root + 1]
  /\ Len(disk.file) > Len(hist.last.pre.file)

\* The tombstone of a compaction and the page that pads a torn file were
\* added to the file, the pages before them unchanged.
TombstoneAppended ==
  /\ hist.last.op = "compact" /\ hist.last.rc = BT_SUCCESS
  /\ Len(disk.file) = Len(hist.last.pre.file) + 1
  /\ SubSeq(disk.file, 1, Len(hist.last.pre.file)) = hist.last.pre.file

PaddingAppended ==
  /\ hist.last.op \in {"put", "commit"} /\ hist.last.rc = BT_SUCCESS
  /\ hist.last.pre.pad > 0 /\ disk.pad = 0

---------------------------------------------------------------------------
(* The order of the writes of a commit *)

\* The writev of a round of the commit loop fails or is short:
\* btree_txn_commit aborts the transaction and returns BT_FAIL.
CommitWriteFails ==
  /\ pc.at = "write" /\ pc.wr = 0 /\ bt.open
  /\ With(Do("commit_write_batch", <<Load(bt, disk), "fail">>), LAMBDA w :
     With(Fail(Do("btree_txn_abort", <<w, "w">>), "EIO"), LAMBDA s :
     StepDone(s, [hist EXCEPT !.last = Call("commit", "A", "w", <<>>, NoVal,
                                            [AllOk EXCEPT !.data = "fail"], s),
                              !.wmap = hist.map, !.new = hist.old],
              Idle)))

\* The write of the meta page fails.
CommitMetaFails ==
  /\ pc.at = "meta" /\ bt.open
  /\ With(Do("commit_meta", <<Load(bt, disk), [AllOk EXCEPT !.meta = "fail"]>>), LAMBDA s :
     StepDone(s, [hist EXCEPT !.last = Call("commit", "A", "w", <<>>, NoVal,
                                            [AllOk EXCEPT !.meta = "fail"], s),
                              !.wmap = hist.map, !.new = hist.old],
              Idle))

\* The steps of a commit one by one, with writes that fail and crashes.
NextCommit ==
  \/ NextCrash
  \/ CommitWriteFails
  \/ CommitMetaFails

SpecCommit == Init /\ [][NextCommit]_vars

\* The pages that are reachable from page pgno are in the file: the page
\* itself, the pages a branch page points to and the overflow pages of the
\* nodes of a leaf.
RECURSIVE ReachableWritten(_, _, _)
ReachableWritten(file, pgno, depth) ==
  /\ depth > 0
  /\ pgno < Len(file) /\ file[pgno + 1].pgno = pgno
  /\ LET p == file[pgno + 1]
     IN  /\ IS_BRANCH(p)
            => \A i \in 0..NUMKEYSP(p) - 1 :
                 ReachableWritten(file, NODEPTRP(p, i).p, depth - 1)
         /\ IS_LEAF(p)
            => \A i \in 0..NUMKEYSP(p) - 1 :
                 F_ISSET(NODEPTRP(p, i).flags, F_BIGDATA)
                 => OverflowPresent(file, NODEPTRP(p, i).data[1], NODEPTRP(p, i).p)

RootWritten(file, root) == root = P_INVALID \/ ReachableWritten(file, root, Len(file))

\* Every page that is reachable from the root of a meta page of the file
\* lies in the file before that meta page.
MetaRootsWritten(file) ==
  \A i \in MetaPages(file) : RootWritten(SubSeq(file, 1, i), file[i + 1].meta.root)

SecondRoundFailed ==
  /\ hist.last.op = "commit" /\ hist.last.rc = BT_FAIL
  /\ hist.last.io.data = "fail"
  /\ Len(disk.file) = hist.csize \div PSIZE + BT_COMMIT_PAGES
  /\ ~btree_is_meta_page(disk.file[Len(disk.file)])

---------------------------------------------------------------------------
(* The meta page a handle takes up *)

SetMax(S) == CHOOSE x \in S : \A y \in S : x >= y

\* Every page after the header lies at the offset of the number it carries.
PagesAtOffset(file) == \A i \in 2..Len(file) : file[i].pgno = i - 1

\* btree_open_fd on the file of the model by a process of its own.
OpenedNow == btree_open("C", [disk EXCEPT !.compact = <<>>, !.lock = ""])

\* What btree_read_meta is to give on a file: it fails on a file that has
\* pages after the header and no valid meta page among them or a tombstone
\* as the last valid one, and else takes up the valid meta page with the
\* highest page number.
TakesLastValidMeta(s, file) ==
  IF MetaPages(file) = {}
  THEN s.open <=> Len(file) = 1 /\ s.pad = 0
  ELSE LET top == file[SetMax(MetaPages(file)) + 1]
       IN  IF F_ISSET(top.meta.flags, BT_TOMBSTONE) THEN ~s.open /\ s.errno = "ESTALE"
           ELSE s.open /\ s.meta = top.meta

\* C23: btree_read_meta takes up the valid meta page with the highest page
\* number, passing over every page that is no valid meta page, and fails
\* only on a file that has pages after its header and no valid meta page.
C23_ReadMetaTakesLastValid == TakesLastValidMeta(OpenedNow, disk.file)

\* Two puts have succeeded on a file that a crash had torn; the file has
\* valid meta pages, and btree_open_fd fails on it with EIO.
C23_Witness ==
  /\ hist.last.op = "put" /\ hist.last.rc = BT_SUCCESS
  /\ MetaPages(disk.file) # {}
  /\ ~F_ISSET(disk.file[SetMax(MetaPages(disk.file)) + 1].meta.flags, BT_TOMBSTONE)
  /\ ~OpenedNow.open /\ OpenedNow.errno = "EIO"

\* On a file whose pages lie at the offsets of their numbers
\* btree_read_meta takes up the last valid meta page.
ReadMetaTakesLastValidAtOffset ==
  PagesAtOffset(disk.file) => TakesLastValidMeta(OpenedNow, disk.file)

\* A file whose last page is no meta page, after a meta write that failed,
\* is opened with the meta page before it.
OpenPassesOverPages ==
  /\ MetaPages(disk.file) # {}
  /\ SetMax(MetaPages(disk.file)) < Len(disk.file) - 1
  /\ PagesAtOffset(disk.file)
  /\ OpenedNow.open

---------------------------------------------------------------------------
(* Page numbers and offsets *)

\* The pages a call has added lie at the offsets of their numbers; the
\* first of them may be the page that pads a torn file.
AddedAtOffset ==
  \A i \in Len(hist.last.pre.file) + 1..Len(disk.file) :
    \/ disk.file[i].pgno = i - 1
    \/ i = Len(hist.last.pre.file) + 1 /\ hist.last.pre.pad > 0

\* The pages of the write transaction carry numbers above those of the
\* pages of the file, each its own, all below next_pgno.
DirtyAboveFile ==
  \A i \in 1..Len(bt.txn.dirty_queue) :
    /\ DirtyPages(bt)[i].pgno >= Len(disk.file) + (IF disk.pad > 0 THEN 1 ELSE 0)
    /\ DirtyPages(bt)[i].pgno < bt.txn.next_pgno
    /\ DirtyPages(bt)[i].page.pgno = DirtyPages(bt)[i].pgno
    /\ \A j \in 1..Len(bt.txn.dirty_queue) :
         DirtyPages(bt)[i].pgno = DirtyPages(bt)[j].pgno => i = j

Wrote == hist.last.op \in {"put", "del", "commit"} /\ hist.last.rc = BT_SUCCESS

\* C24: the pages of a write transaction have numbers above every page of
\* the file, and the pages a successful commit has written, its meta page
\* among them, lie at the file offsets of their numbers, also when the
\* file was torn at the begin and when the commit took several rounds.
C24_PagesAtOffsets ==
  /\ ~bt.txn.null => DirtyAboveFile
  /\ Wrote => AddedAtOffset

\* A put has returned BT_SUCCESS and a page it wrote lies behind the offset
\* of its number.
C24_Witness ==
  /\ Wrote /\ hist.last.op = "put"
  /\ \E i \in Len(hist.last.pre.file) + 2..Len(disk.file) :
       disk.file[i].flags # 0 /\ disk.file[i].pgno = i - 2
  /\ HandleOf(hist.last.who).ub = {}

\* The claim holds for a handle that does not have BT_FIXPADDING set from
\* an earlier look at the file when the file is torn no more.
PagesAtOffsetsWithoutOldFlag ==
  /\ ~bt.txn.null => DirtyAboveFile
  /\ (Wrote /\ ~(hist.last.pre.fix /\ hist.last.pre.pad = 0)) => AddedAtOffset

\* A commit on a torn file has padded it and has written its pages in two
\* rounds.
PaddedInTwoRounds ==
  /\ Wrote /\ hist.last.pre.pad > 0
  /\ Len(disk.file) >= Len(hist.last.pre.file) + BT_COMMIT_PAGES + 3
  /\ AddedAtOffset

---------------------------------------------------------------------------
(* Touching a page *)

\* Page id is in the page cache under its number, and its parent, if it
\* has one, points to it at parent_index: the descent of
\* btree_search_page_root leaves a page so before it touches it.
Linked(s, id) ==
  LET m == MP(s, id)
  IN  /\ m.pgno \in DOMAIN s.cache /\ s.cache[m.pgno] = id
      /\ m.page.pgno = m.pgno
      /\ \/ m.parent = NULL
         \/ /\ Live(s, m.parent) /\ m.parent # id
            /\ m.parent_index < NUMKEYS(s, m.parent)
            /\ NODEPTR(s, m.parent, m.parent_index).p = m.pgno

\* What mpage_touch of page id has made of s, in t.
Touched(s, id, t) ==
  LET m == MP(s, id)
      n == t.r
      new == s.txn.next_pgno
      par == m.parent
  IN  IF m.dirty # 0 THEN t = Ret(s, id)
      ELSE /\ t.txn = [s.txn EXCEPT !.next_pgno = new + 1, !.dirty_queue = Append(@, n)]
           /\ ~(\E i \in 1..Len(s.txn.dirty_queue) : s.txn.dirty_queue[i] = n)
           /\ Live(t, n)
           /\ MP(t, n) = [m EXCEPT !.pgno = new, !.page.pgno = new, !.dirty = 1,
                                   !.ref = IF n = id THEN @ ELSE 0]
           /\ new \in DOMAIN t.cache /\ t.cache[new] = n
           /\ par # NULL
              => t.heap[par] = [s.heap[par] EXCEPT !.page.nodes[m.parent_index + 1].p = new]
           /\ \A o \in DOMAIN s.heap \ {id, par} : o \in DOMAIN t.heap /\ t.heap[o] = s.heap[o]
           /\ \A q \in DOMAIN s.cache \ {m.pgno} : q \in DOMAIN t.cache /\ t.cache[q] = s.cache[q]
           /\ IF m.ref = 0
              THEN n = id /\ m.pgno \notin DOMAIN t.cache
              ELSE /\ n \notin DOMAIN s.heap
                   /\ t.heap[id] = s.heap[id]
                   /\ t.cache[m.pgno] = id
           /\ t.ub = s.ub /\ t.file = s.file /\ t.meta = s.meta

\* C25: mpage_touch of a dirty page changes nothing.  Of a clean page it
\* takes one new page number, marks the page dirty, appends it once to the
\* dirty queue and writes the new number into the node of the parent at
\* parent_index; a page that a cursor holds (ref > 0) is copied, and the
\* page the cursor holds keeps its number, its bytes and its place in the
\* page cache.
C25_TouchCopiesOnce ==
  ~bt.txn.null
  => \A id \in DOMAIN bt.heap :
       Linked(Load(bt, disk), id)
       => Touched(Load(bt, disk), id, mpage_touch(Load(bt, disk), id))

\* A btree_txn_del of an absent key has touched the pages of its descent
\* in a write transaction, and the page cache holds, linked to their
\* parents, a page that a cursor holds, a dirty page and a clean page that
\* no cursor holds.
C25_Witness ==
  /\ ~bt.txn.null
  /\ hist.last.op = "del" /\ hist.last.t = "w" /\ hist.last.errno = "ENOENT"
  /\ \E a, b, c \in DOMAIN bt.heap :
       /\ Linked(Load(bt, disk), a) /\ bt.heap[a].ref > 0 /\ bt.heap[a].dirty = 0
       /\ bt.heap[a].parent # NULL
       /\ Linked(Load(bt, disk), b) /\ bt.heap[b].dirty # 0
       /\ Linked(Load(bt, disk), c) /\ bt.heap[c].ref = 0 /\ bt.heap[c].dirty = 0
       /\ bt.heap[c].parent # NULL

\* The descent of a btree_txn_del has copied the leaf that a cursor of the
\* read-only transaction holds.
DescentCopiedPinnedLeaf ==
  /\ hist.last.op = "del" /\ hist.last.t = "w" /\ hist.last.errno = "ENOENT"
  /\ \E a, n \in DOMAIN bt.heap :
       /\ bt.heap[a].ref > 0 /\ bt.heap[a].dirty = 0 /\ IS_LEAF(bt.heap[a].page)
       /\ n # a /\ bt.heap[n].dirty # 0
       /\ bt.heap[n].page = [bt.heap[a].page EXCEPT !.pgno = bt.heap[n].pgno]
       /\ bt.heap[n].pgno > bt.heap[a].pgno

---------------------------------------------------------------------------
(* The page cache after a call *)

CacheCalls == 5

\* The sizes a caller gives the page cache.
CacheSizes == {1, 2}

\* btree_set_cache_size(bt, cache_size).
btree_set_cache_size(s, n) == [s EXCEPT !.max_cache = n]

InCacheBudget == hist.calls < CacheCalls

SetCacheSize(n) ==
  /\ CanCall
  /\ bt.max_cache # n
  /\ With(Ok(btree_set_cache_size(Load(bt, disk), n)), LAMBDA s :
     Done("A", s, [hist EXCEPT !.last = Call("set_cache_size", "A", "null", <<>>, NoVal,
                                             AllOk, s)], 0))

\* The pages of the page cache of handle h that mpage_prune may remove.
Prunable(h) ==
  {id \in DOMAIN h.heap :
     /\ h.heap[id].pgno \in DOMAIN h.cache /\ h.cache[h.heap[id].pgno] = id
     /\ h.heap[id].dirty = 0 /\ h.heap[id].ref <= 0}

\* Whether mpage_prune would find nothing to do in the page cache of h.
Pruned(h) == h.cache_size <= h.max_cache \/ Prunable(h) = {}

\* btree_cursor_close(cursor) of the cursor of the read-only transaction.
CursorCloseCached ==
  /\ CanCall
  /\ bt.cur.open /\ bt.cur.txn = "r"
  /\ With(Ok(Do("btree_cursor_close", <<Load(bt, disk)>>)), LAMBDA s :
     Done("A", s, [hist EXCEPT !.last = [Call("cursor_close", "A", "r", <<>>, NoVal,
                                              AllOk, s)
                                          EXCEPT !.pre = [pruned |-> Pruned(bt)]],
                               !.trav = <<>>, !.tend = FALSE,
                               !.seen = hist.trav # <<>> \/ hist.tend], 0))

\* The calls of one handle with a page cache of one or two pages: gets and
\* puts without a transaction, a write transaction, a read-only transaction
\* and its cursor; every system call succeeds.
NextCache ==
  \/ \E n \in CacheSizes : InCacheBudget /\ SetCacheSize(n)
  \/ \E rdonly \in BOOLEAN : InCacheBudget /\ Begin(rdonly)
  \/ \E k \in Keys : InCacheBudget /\ bt.txn.null /\ Put("null", k, <<7>>, AllOk)
  \/ \E k \in Keys : InCacheBudget /\ Put("w", k, <<7>>, AllOk)
  \/ \E k \in Keys, t \in {"null", "r"} : InCacheBudget /\ Get(t, k)
  \/ \E k \in Keys, t \in {"null", "w"} :
       InCacheBudget /\ (t = "null" => bt.txn.null) /\ Del(t, k, AllOk)
  \/ InCacheBudget /\ Commit(AllOk)
  \/ \E t \in {"w", "r"} : InCacheBudget /\ Abort(t)
  \/ InCacheBudget /\ CursorOpen("r")
  \/ \E op \in {"BT_FIRST", "BT_NEXT"} : InCacheBudget /\ CursorGet(op, 1)
  \/ InCacheBudget /\ CursorCloseCached

SpecCache == Init /\ [][NextCache]_vars


PruneKeepsDirtyAndPinned ==
  LET s == Load(bt, disk)
      u == mpage_prune(s)
  IN  /\ \A id \in DOMAIN s.heap :
           s.heap[id].dirty # 0 \/ s.heap[id].ref > 0
           => id \in DOMAIN u.heap /\ u.heap[id] = s.heap[id]
      /\ \A q \in DOMAIN s.cache :
           s.heap[s.cache[q]].dirty # 0 \/ s.heap[s.cache[q]].ref > 0
           => q \in DOMAIN u.cache /\ u.cache[q] = s.cache[q]
      /\ Pruned(u)

CloseLeavesUnpruned ==
  /\ hist.last.op = "cursor_close"
  /\ bt.max_cache \in CacheSizes
  /\ hist.last.pre.pruned
  /\ ~Pruned(bt)

\* A call has pruned the page cache down to max_cache pages.
PrunedToSize ==
  /\ hist.last.op \in {"get", "put", "del"}
  /\ bt.max_cache \in CacheSizes
  /\ bt.cache_size = bt.max_cache

\* A put in a write transaction has left more than max_cache pages in the
\* page cache, all of them dirty.
DirtyPagesKept ==
  /\ hist.last.op = "put" /\ hist.last.t = "w" /\ hist.last.rc = BT_SUCCESS
  /\ bt.max_cache \in CacheSizes
  /\ bt.cache_size > bt.max_cache
  /\ \A q \in DOMAIN bt.cache : bt.heap[bt.cache[q]].dirty # 0

---------------------------------------------------------------------------
(* The shape of the committed tree *)

TreeCalls == 3

\* Keys the calls on the tree put and delete: keys of the trees of the
\* model and keys between them.
TreeKeys == {<<1, 1>>, <<1, 1, 2>>, <<2, 1, 2>>, <<2, 3>>, <<3, 1>>}

\* The keys the leaves of the committed tree give to a descent: each the
\* prefix of its page followed by the key stored in the node.
TreeKeysOf(s) ==
  LET q == Traverse(s, "null") IN {q[i][1] : i \in 1..Len(q)}

\* The page of the file with number pgno: a page of garbage when the file
\* has none.
FilePage(file, pgno) ==
  IF pgno < Len(file) /\ file[pgno + 1].pgno = pgno THEN file[pgno + 1] ELSE GarbagePage

\* The keys of page p in full: the prefix of the page followed by the key
\* stored in node i.
FullKey(p, pfx, i) == pfx \o NODEPTRP(p, i).key

\* The prefix find_common_prefix gives a page between the separators lo
\* and hi, each <<>> when the page has none on that side, below a page of
\* prefix pfx.
PrefixBetween(pfx, lo, hi) ==
  IF lo # <<>> /\ hi # <<>> THEN common_prefix(lo[1], hi[1]) ELSE pfx

\* The subtree of page pgno of the file is ordered: the separators of
\* every branch page grow from slot 1 on, and every key of a leaf is at or
\* above every separator in L and below every separator in H, the
\* separators its ancestors have to its left and to its right.  pfx, lo
\* and hi are the prefix and the nearest separators of the page.
RECURSIVE TreeOrdered(_, _, _, _, _, _, _, _)
TreeOrdered(file, pgno, pfx, lo, hi, L, H, depth) ==
  LET p == FilePage(file, pgno)
      n == NUMKEYSP(p)
  IN  IF depth = 0 \/ p = GarbagePage THEN FALSE
      ELSE IF IS_LEAF(p)
      THEN \A i \in 0..n - 1 :
             /\ \A l \in L : btree_cmp(FullKey(p, pfx, i), l) >= 0
             /\ \A h \in H : btree_cmp(FullKey(p, pfx, i), h) < 0
      ELSE /\ IS_BRANCH(p)
           /\ \A i \in 1..n - 2 : btree_cmp(FullKey(p, pfx, i), FullKey(p, pfx, i + 1)) < 0
           /\ \A i \in 0..n - 1 :
                LET clo == IF i > 0 THEN <<FullKey(p, pfx, i)>> ELSE lo
                    chi == IF i + 1 < n THEN <<FullKey(p, pfx, i + 1)>> ELSE hi
                IN  TreeOrdered(file, NODEPTRP(p, i).p, PrefixBetween(pfx, clo, chi),
                                clo, chi,
                                IF i > 0 THEN L \cup {FullKey(p, pfx, i)} ELSE L,
                                IF i + 1 < n THEN H \cup {FullKey(p, pfx, i + 1)} ELSE H,
                                depth - 1)

\* The committed tree of root root and of depth levels is ordered.
Ordered(file, root, depth) ==
  root = P_INVALID \/ TreeOrdered(file, root, <<>>, <<>>, <<>>, {}, {}, depth)

\* The keys of the leaves of the subtree of page pgno, in full.
RECURSIVE LeafKeys(_, _, _, _, _, _)
LeafKeys(file, pgno, pfx, lo, hi, depth) ==
  LET p == FilePage(file, pgno)
      n == NUMKEYSP(p)
  IN  IF depth = 0 \/ p = GarbagePage THEN {}
      ELSE IF IS_LEAF(p) THEN {FullKey(p, pfx, i) : i \in 0..n - 1}
      ELSE IF ~IS_BRANCH(p) THEN {}
      ELSE UNION {LET clo == IF i > 0 THEN <<FullKey(p, pfx, i)>> ELSE lo
                      chi == IF i + 1 < n THEN <<FullKey(p, pfx, i + 1)>> ELSE hi
                  IN  LeafKeys(file, NODEPTRP(p, i).p, PrefixBetween(pfx, clo, chi),
                               clo, chi, depth - 1) : i \in 0..n - 1}

\* What a put or a del finds: the committed tree.
TreePre ==
  [root |-> bt.meta.root, file |-> disk.file, depth |-> bt.meta.depth,
   map |-> hist.map, keys |-> TreeKeysOf(Load(bt, disk)),
   ordered |-> Ordered(disk.file, bt.meta.root, bt.meta.depth), ev |-> bt.ev]

TreePut(k, v) ==
  /\ CanCall /\ bt.txn.null
  /\ With(Do("btree_txn_put", <<Load(bt, disk), "null", k, Val(v), AllOk>>), LAMBDA s :
     With(s.rc = BT_SUCCESS, LAMBDA ok :
     Done("A", s, [hist EXCEPT !.last = [Call("put", "A", "null", k, v, AllOk, s)
                                          EXCEPT !.pre = TreePre],
                     !.map = IF ok THEN [@ EXCEPT ![k] = v] ELSE @], 1)))

TreeDel(k) ==
  /\ CanCall /\ bt.txn.null
  /\ With(Do("btree_txn_del", <<Load(bt, disk), "null", k, AllOk>>), LAMBDA s :
     With(s.rc = BT_SUCCESS, LAMBDA ok :
     Done("A", s, [hist EXCEPT !.last = [Call("del", "A", "null", k, NoVal, AllOk, s)
                                          EXCEPT !.pre = TreePre],
                     !.map = IF ok THEN [@ EXCEPT ![k] = NoVal] ELSE @], 1)))

\* Puts and dels without a transaction, each committed as it returns;
\* every system call succeeds.
NextTree ==
  \/ \E k \in TreeKeys, v \in Values : hist.calls < TreeCalls /\ TreePut(k, v)
  \/ \E k \in TreeKeys : hist.calls < TreeCalls /\ TreeDel(k)

SpecTree == Init /\ [][NextTree]_vars

\* The numbers of the branch and leaf pages of the subtree of page pgno
\* in the file, down to depth levels.
RECURSIVE TreePgnos(_, _, _)
TreePgnos(file, pgno, depth) ==
  LET p == FilePage(file, pgno)
  IN  IF depth = 0 \/ p = GarbagePage THEN {}
      ELSE IF IS_BRANCH(p)
      THEN {pgno} \cup UNION {TreePgnos(file, NODEPTRP(p, i).p, depth - 1) :
                                i \in 0..NUMKEYSP(p) - 1}
      ELSE IF IS_LEAF(p) THEN {pgno}
      ELSE {}

\* The pages below the root of the committed tree of the depth its meta
\* page gives.
NonRootPgnos(file, root, depth) ==
  IF root = P_INVALID THEN {} ELSE TreePgnos(file, root, depth) \ {root}

Filled(p) == PAGEFILLP(p) >= FILL_THRESHOLD \/ NUMKEYSP(p) >= BT_MINKEYS

\* C27: every page of the committed tree below the root is filled to 250
\* per mille or holds BT_MINKEYS keys.
C27_PagesFilled ==
  \A pgno \in NonRootPgnos(disk.file, bt.meta.root, bt.meta.depth) :
    Filled(FilePage(disk.file, pgno))

\* A btree_txn_del has succeeded on a tree whose pages were filled, and
\* the committed tree has a leaf below the root that is filled to less
\* than 250 per mille and holds fewer than BT_MINKEYS keys.
C27_Witness ==
  /\ hist.last.op = "del" /\ hist.last.rc = BT_SUCCESS
  /\ \A pgno \in NonRootPgnos(hist.last.pre.file, hist.last.pre.root, hist.last.pre.depth) :
       Filled(FilePage(hist.last.pre.file, pgno))
  /\ \E pgno \in NonRootPgnos(disk.file, bt.meta.root, bt.meta.depth) :
       ~Filled(FilePage(disk.file, pgno))
  /\ bt.ub = {}

\* The same after a btree_txn_put.
PutLeavesUnfilledPage ==
  /\ hist.last.op = "put" /\ hist.last.rc = BT_SUCCESS
  /\ \A pgno \in NonRootPgnos(hist.last.pre.file, hist.last.pre.root, hist.last.pre.depth) :
       Filled(FilePage(hist.last.pre.file, pgno))
  /\ \E pgno \in NonRootPgnos(disk.file, bt.meta.root, bt.meta.depth) :
       ~Filled(FilePage(disk.file, pgno))
  /\ bt.ub = {}

\* C28: the prefix of a page followed by the key stored in a node is a key
\* that was put: a put or a del that succeeds leaves no key in the leaves
\* of the committed tree that was neither there before nor put by the call.
C28_PrefixReconstructs ==
  hist.last.op \in {"put", "del"} /\ hist.last.rc = BT_SUCCESS
  => TreeKeysOf(Load(bt, disk)) \subseteq
       hist.last.pre.keys \cup (IF hist.last.op = "put" THEN {hist.last.key} ELSE {})

\* A btree_txn_del has succeeded on a tree whose leaves gave the keys put
\* and not deleted, and the leaves of the committed tree give a key that
\* was never put.
C28_Witness ==
  /\ hist.last.op = "del" /\ hist.last.rc = BT_SUCCESS
  /\ hist.last.pre.keys = Present(hist.last.pre.map)
  /\ \E k \in TreeKeysOf(Load(bt, disk)) : k \notin Present(hist.last.pre.map)
  /\ bt.ub = {}

\* A put that succeeds leaves no key in the leaves of the committed tree
\* that was neither there before nor put by the call.
PrefixReconstructsAfterPut ==
  hist.last.op = "put" /\ hist.last.rc = BT_SUCCESS
  => TreeKeysOf(Load(bt, disk)) \subseteq hist.last.pre.keys \cup {hist.last.key}

\* A put has split a leaf of a tree of depth two and the leaves give the
\* keys put.
SplitKeepsPrefix ==
  /\ hist.last.op = "put" /\ hist.last.rc = BT_SUCCESS
  /\ hist.last.pre.depth = 2
  /\ Cardinality(NonRootPgnos(disk.file, bt.meta.root, bt.meta.depth))
       > Cardinality(NonRootPgnos(hist.last.pre.file, hist.last.pre.root,
                                  hist.last.pre.depth))
  /\ TreeKeysOf(Load(bt, disk)) = Present(hist.map)

\* C29: in every branch page of the committed tree the separators of the
\* slots from 1 on grow strictly, every key below slot i is at or above
\* the separator of slot i and every key below slot i - 1 is below it.
C29_SeparatorsOrdered ==
  Ordered(disk.file, bt.meta.root, bt.meta.depth)

\* A btree_txn_del has succeeded on an ordered tree of depth two and the
\* committed tree is not ordered.
C29_Witness ==
  /\ hist.last.op = "del" /\ hist.last.rc = BT_SUCCESS
  /\ hist.last.pre.ordered /\ hist.last.pre.depth = 2
  /\ ~Ordered(disk.file, bt.meta.root, bt.meta.depth)
  /\ bt.ub = {}

\* A put that succeeds on an ordered tree leaves an ordered tree.
OrderedAfterPut ==
  hist.last.op = "put" /\ hist.last.rc = BT_SUCCESS /\ hist.last.pre.ordered
  => Ordered(disk.file, bt.meta.root, bt.meta.depth)

\* On an ordered tree the descent of btree_txn_get finds every key of the
\* leaves.
DescentFindsLeafKeys ==
  Ordered(disk.file, bt.meta.root, bt.meta.depth) /\ bt.meta.root # P_INVALID
  => \A k \in LeafKeys(disk.file, bt.meta.root, <<>>, <<>>, <<>>, bt.meta.depth) :
       k \in AllKeys /\ GetVal(Load(bt, disk), "null", k) \notin {NoVal, Broken}

\* The descent of btree_txn_get misses a key that a leaf of the committed
\* tree holds.
DescentMissesLeafKey ==
  /\ bt.meta.root # P_INVALID /\ bt.ub = {}
  /\ \E k \in LeafKeys(disk.file, bt.meta.root, <<>>, <<>>, <<>>, bt.meta.depth) :
       k \in AllKeys /\ GetVal(Load(bt, disk), "null", k) = NoVal

---------------------------------------------------------------------------
(* The records of a split *)

\* The records of page mp of s in their order: the key in full, the bytes
\* of the value and the flags of every node.
Records(s, mp) ==
  [i \in 1..NUMKEYS(s, mp) |->
     <<concat_prefix(MP(s, mp).prefix, NODEPTR(s, mp, i - 1).key),
       NODEPTR(s, mp, i - 1).data, NODEPTR(s, mp, i - 1).flags>>]

\* The call of btree_split that btree_txn_put(bt, NULL, key, data) makes
\* on the committed tree of s, as btree_txn_put comes to it: the
\* transaction begun, the leaf found and touched, the node of an equal
\* key deleted.  split tells whether the put splits the leaf; sx is the
\* handle before btree_split, mp and ki the page and the index it is
\* called with, x the handle after it.
SplitCall(s, key, data) ==
  LET s0 == Do("btree_txn_begin", <<s, FALSE>>)
      s1 == Do("btree_search_page", <<s0, "w", key, FALSE, TRUE>>)
  IN  IF s0.rc # BT_SUCCESS \/ s1.rc # BT_SUCCESS
      THEN [split |-> FALSE, sx |-> s0, mp |-> NULL, ki |-> 0, x |-> s0]
      ELSE With(Do("btree_search_node", <<s1, s1.r, key>>), LAMBDA f :
           With(IF ~f.null /\ f.exact THEN Do("btree_del_node", <<s1, s1.r, f.ki>>) ELSE s1,
                LAMBDA sx :
           LET ki == IF f.null THEN NUMKEYS(sx, s1.r) ELSE f.ki
           IN  IF SIZELEFT(sx, s1.r) < bt_leaf_size(key, data)
               THEN [split |-> TRUE, sx |-> sx, mp |-> s1.r, ki |-> ki,
                     x |-> Do("btree_split", <<sx, s1.r, ki, key, data, P_INVALID>>)]
               ELSE [split |-> FALSE, sx |-> sx, mp |-> s1.r, ki |-> ki, x |-> sx]))

\* The right sibling btree_split has made for page mp: the page the
\* parent of mp names in the slot after that of mp.
RightOf(x, mp) ==
  LET par == MP(x, mp).parent
      pgno == NODEPTR(x, par, MP(x, mp).parent_index + 1).p
  IN  IF pgno \in DOMAIN x.cache THEN x.cache[pgno] ELSE NULL

\* The split c has kept the records: those of the page before it, with
\* the new one at index ki, are those of the page and of its right
\* sibling after it, in their order, and *mpp and *newindxp name the
\* place of the new record.
Conserved(c, key, data) ==
  LET want == InsertAt(Records(c.sx, c.mp), c.ki, <<key, data.data, 0>>)
      r == RightOf(c.x, c.mp)
      left == Records(c.x, c.mp)
      right == Records(c.x, r)
      at == c.x.r
  IN  /\ r # NULL
      /\ left \o right = want
      /\ Len(left) > 0 /\ Len(right) > 0
      /\ at.mp \in {c.mp, r}
      /\ at.indx < NUMKEYS(c.x, at.mp)
      /\ Records(c.x, at.mp)[at.indx + 1] = <<key, data.data, 0>>
      /\ want[(IF at.mp = c.mp THEN 0 ELSE Len(left)) + at.indx + 1] = <<key, data.data, 0>>

\* The puts whose splits the model looks at.
SplitPuts == TreeKeys \X Values

\* C30: a btree_split that returns success leaves the records of the page,
\* with the new record at its index, in the page and its new right
\* sibling: none lost, none twice, in their order, and *mpp and *newindxp
\* name the place of the new record.
C30_SplitConserves ==
  CanCall /\ bt.txn.null
  => \A kv \in SplitPuts :
       LET c == SplitCall(Load(bt, disk), kv[1], Val(kv[2]))
       IN  c.split /\ c.x.rc = BT_SUCCESS /\ c.x.ub = c.sx.ub
           => Conserved(c, kv[1], Val(kv[2]))

\* A put without a transaction has returned BT_SUCCESS after a
\* btree_add_node of its btree_split had failed; the leaves gave the keys
\* put before it, and a key that was in the tree before is in no leaf of
\* the committed tree.
C30_Witness ==
  /\ hist.last.op = "put" /\ hist.last.rc = BT_SUCCESS
  /\ hist.last.pre.keys = Present(hist.last.pre.map)
  /\ \E k \in hist.last.pre.keys : k \notin TreeKeysOf(Load(bt, disk))
  /\ "split-add-failed" \in bt.ev \ hist.last.pre.ev
  /\ bt.ub = {}

\* A btree_split in which every btree_add_node succeeded keeps the records.
SplitConservesWhenAddsSucceed ==
  CanCall /\ bt.txn.null
  => \A kv \in SplitPuts :
       LET c == SplitCall(Load(bt, disk), kv[1], Val(kv[2]))
       IN  /\ c.split /\ c.x.rc = BT_SUCCESS /\ c.x.ub = c.sx.ub
           /\ "split-add-failed" \notin c.x.ev
           => Conserved(c, kv[1], Val(kv[2]))

\* A put would split a leaf below a branch page, every btree_add_node
\* succeeds, and the new record goes to the right sibling.
SplitPutsNewRecordRight ==
  /\ CanCall /\ bt.txn.null
  /\ \E kv \in SplitPuts :
       LET c == SplitCall(Load(bt, disk), kv[1], Val(kv[2]))
       IN  /\ c.split /\ c.x.rc = BT_SUCCESS /\ "split-add-failed" \notin c.x.ev
           /\ MP(c.sx, c.mp).parent # NULL
           /\ c.x.r.mp # c.mp
           /\ Conserved(c, kv[1], Val(kv[2]))

---------------------------------------------------------------------------
(* The separator of a leaf split *)

IsPrefixOf(a, b) == Len(a) <= Len(b) /\ Take(b, Len(a)) = a

\* The right sibling btree_split has made in split c: the leaf among the
\* pages that btree_new_page has made during the call.
SplitRight(c) ==
  LET new == {id \in DOMAIN c.x.heap \ DOMAIN c.sx.heap : IS_LEAF(PG(c.x, id))}
  IN  IF new = {} THEN NULL ELSE SetMin(new)

\* The key of the slot of the parent that names page mp, in full.
SeparatorOf(x, mp) ==
  concat_prefix(MP(x, MP(x, mp).parent).prefix,
                NODEPTR(x, MP(x, mp).parent, MP(x, mp).parent_index).key)

\* The separator of split c is the shortest prefix of the first key of
\* the right half that is greater than the last key of the left half.
Minimal(c) ==
  LET r == SplitRight(c)
      left == Records(c.x, c.mp)
      right == Records(c.x, r)
      last == left[Len(left)][1]
      first == right[1][1]
      sep == SeparatorOf(c.x, r)
  IN  /\ Len(left) > 0 /\ Len(right) > 0
      /\ IsPrefixOf(sep, first)
      /\ btree_cmp(sep, last) > 0
      /\ btree_cmp(sep, first) <= 0
      /\ \A n \in 0..Len(sep) - 1 : btree_cmp(Take(first, n), last) <= 0

\* Split c is a split of a leaf that has returned success and whose
\* separator is the key of a slot of the parent of the right half.
LeafSplit(c) ==
  /\ c.split /\ c.x.rc = BT_SUCCESS
  /\ SplitRight(c) # NULL
  /\ MP(c.x, SplitRight(c)).parent # NULL
  /\ MP(c.x, SplitRight(c)).parent_index > 0
  /\ MP(c.x, SplitRight(c)).parent_index < NUMKEYS(c.x, MP(c.x, SplitRight(c)).parent)

\* C31: at a leaf split the separator in the parent is a prefix of the
\* first key of the right half, greater than the last key of the left
\* half, not greater than the first key of the right half, and no shorter
\* prefix of that first key is greater than the last key of the left half.
C31_SeparatorMinimal ==
  CanCall /\ bt.txn.null
  => \A kv \in SplitPuts :
       LET c == SplitCall(Load(bt, disk), kv[1], Val(kv[2]))
       IN  LeafSplit(c) => Minimal(c)

\* The same of the splits in which every btree_add_node succeeded and
\* bt_reduce_separator read the bytes of two keys only.
SeparatorMinimalWhenAddsSucceed ==
  CanCall /\ bt.txn.null
  => \A kv \in SplitPuts :
       LET c == SplitCall(Load(bt, disk), kv[1], Val(kv[2]))
       IN  LeafSplit(c) /\ "split-add-failed" \notin c.x.ev /\ c.x.ub = c.sx.ub
           => Minimal(c)

\* A put would split a leaf and the separator is shorter than the first
\* key of the right half.
SeparatorShortened ==
  /\ CanCall /\ bt.txn.null
  /\ \E kv \in SplitPuts :
       LET c == SplitCall(Load(bt, disk), kv[1], Val(kv[2]))
       IN  /\ LeafSplit(c) /\ Minimal(c)
           /\ Len(SeparatorOf(c.x, SplitRight(c)))
                < Len(Records(c.x, SplitRight(c))[1][1])

\* A put would split a leaf and return success after a btree_add_node of
\* the left half had failed, and a prefix of the first key of the right
\* half that is shorter than the separator is greater than the last key
\* the left half holds.
C31_Witness ==
  /\ CanCall /\ bt.txn.null /\ bt.ub = {}
  /\ \E kv \in SplitPuts :
       LET c == SplitCall(Load(bt, disk), kv[1], Val(kv[2]))
       IN  /\ LeafSplit(c) /\ ~Minimal(c)
           /\ "split-add-failed" \in c.x.ev /\ c.x.ub = {}
           /\ Len(Records(c.x, c.mp)) > 0 /\ Len(Records(c.x, SplitRight(c))) > 0
           /\ btree_cmp(SeparatorOf(c.x, SplitRight(c)),
                        Records(c.x, c.mp)[NUMKEYS(c.x, c.mp)][1]) > 0

---------------------------------------------------------------------------
(* The first slot of a branch page *)

BranchCalls == 3

\* The keys of two and three bytes that begin with 1 or 2, in their order.
DeepKeys ==
  << <<1, 1>>, <<1, 1, 1>>, <<1, 1, 2>>, <<1, 1, 3>>, <<1, 2>>, <<1, 2, 1>>,
     <<1, 2, 2>>, <<1, 2, 3>>, <<1, 3>>, <<1, 3, 1>>, <<1, 3, 2>>, <<1, 3, 3>>,
     <<2, 1>>, <<2, 1, 1>>, <<2, 1, 2>>, <<2, 1, 3>>, <<2, 2>>, <<2, 2, 1>>,
     <<2, 2, 2>>, <<2, 2, 3>>, <<2, 3>>, <<2, 3, 1>>, <<2, 3, 2>>, <<2, 3, 3>> >>

\* The keys the deep tree has lost again before the model starts.
DeepDeleted == 5

\* The null-transaction dels of a sequence of keys, one call after the
\* other.
RECURSIVE RunDels(_, _)
RunDels(s, q) ==
  IF q = <<>> THEN s
  ELSE With(Do("btree_txn_del", <<s, "null", Head(q), AllOk>>), LAMBDA n :
       IF n.rc = BT_SUCCESS /\ n.ub = {}
       THEN RunDels(Load(StoreHandle(n), StoreDisk(n)), Tail(q))
       ELSE n)

\* A tree of depth three: the puts of DeepKeys in their order, then the
\* dels of the first DeepDeleted of them.
DeepTree ==
  RunDels(RunPuts(btree_open("A", NoFile), Fill(DeepKeys, <<7>>)),
          SubSeq(DeepKeys, 1, DeepDeleted))

DeepLeft == {DeepKeys[i] : i \in DeepDeleted + 1..Len(DeepKeys)}

InitDeep ==
  /\ disk = StoreDisk(DeepTree)
  /\ bt = StoreHandle(DeepTree)
  /\ peer = StoreHandle(btree_open("B", StoreDisk(DeepTree)))
  /\ hist = [Hist0(EmptyMap, DeepTree) EXCEPT !.trav = DeepLeft]
  /\ pc = Idle

\* Slot 0 of every branch page of the tree under root has a key of no
\* bytes.
SlotZeroImplicit(file, root, depth) ==
  \A pgno \in TreePgnos(file, root, depth) :
    IS_BRANCH(FilePage(file, pgno)) /\ NUMKEYSP(FilePage(file, pgno)) > 0
    => NODEPTRP(FilePage(file, pgno), 0).key = <<>>

BranchPre ==
  [keys |-> TreeKeysOf(Load(bt, disk)), want |-> hist.trav,
   ordered |-> Ordered(disk.file, bt.meta.root, bt.meta.depth),
   depth |-> bt.meta.depth, branch_pages |-> bt.meta.branch_pages,
   leaf_pages |-> bt.meta.leaf_pages, root |-> bt.meta.root, ub |-> bt.ub]

BranchPut(k, v) ==
  /\ CanCall /\ bt.txn.null
  /\ With(Do("btree_txn_put", <<Load(bt, disk), "null", k, Val(v), AllOk>>), LAMBDA s :
     Done("A", s, [hist EXCEPT !.last = [Call("put", "A", "null", k, v, AllOk, s)
                                          EXCEPT !.pre = BranchPre],
                     !.trav = IF s.rc = BT_SUCCESS THEN @ \cup {k} ELSE @], 1))

BranchDel(k) ==
  /\ CanCall /\ bt.txn.null
  /\ With(Do("btree_txn_del", <<Load(bt, disk), "null", k, AllOk>>), LAMBDA s :
     Done("A", s, [hist EXCEPT !.last = [Call("del", "A", "null", k, NoVal, AllOk, s)
                                          EXCEPT !.pre = BranchPre],
                     !.trav = IF s.rc = BT_SUCCESS THEN @ \ {k} ELSE @], 1))

\* Puts and dels without a transaction on the tree of depth three, each
\* committed as it returns; every system call succeeds.
NextBranch ==
  \/ \E i \in 1..Len(DeepKeys) :
       hist.calls < BranchCalls /\ bt.ub = {} /\ BranchDel(DeepKeys[i])
  \/ \E i \in 1..DeepDeleted :
       hist.calls < BranchCalls /\ bt.ub = {} /\ BranchPut(DeepKeys[i], <<7>>)

SpecBranch == InitDeep /\ [][NextBranch]_vars

\* C32: after every put or del that returns success slot 0 of every branch
\* page under the root has a key of no bytes, and no put or del rewrites
\* the key of slot 0 of a branch page out of bounds when the prefix of the
\* page changes.
C32_BranchSlotZero ==
  hist.last.op \in {"put", "del"}
  => /\ "slot 0 of a branch page in btree_adjust_prefix" \notin bt.ub
     /\ hist.last.rc = BT_SUCCESS
        => SlotZeroImplicit(disk.file, bt.meta.root, bt.meta.depth)

\* A del on a tree of depth three that was ordered and held in its leaves
\* the keys put and not deleted has run btree_adjust_prefix on a branch
\* page whose prefix had become longer.
C32_Witness ==
  /\ hist.last.op = "del"
  /\ hist.last.pre.ub = {} /\ hist.last.pre.ordered
  /\ hist.last.pre.keys = hist.last.pre.want
  /\ hist.last.pre.depth = 3
  /\ "slot 0 of a branch page in btree_adjust_prefix" \in bt.ub

\* Where no behaviour was undefined, a put or del that returns success
\* leaves slot 0 of every branch page with a key of no bytes.
SlotZeroWhenDefined ==
  hist.last.op \in {"put", "del"} /\ hist.last.rc = BT_SUCCESS /\ bt.ub = {}
  => SlotZeroImplicit(disk.file, bt.meta.root, bt.meta.depth)

---------------------------------------------------------------------------
(* The collapse of the root *)

CollapseCalls == 6

ShallowKeys == << <<1, 1, 1>>, <<1, 1, 3>>, <<1, 2, 2>>, <<2, 1, 1>>, <<2, 3>> >>

\* The keys that are put again after they were deleted.
ShallowPuts == 2

\* A tree of depth two: a branch root over two leaves.
ShallowTree == RunPuts(btree_open("A", NoFile), Fill(ShallowKeys, <<7>>))

InitShallow ==
  /\ disk = StoreDisk(ShallowTree)
  /\ bt = StoreHandle(ShallowTree)
  /\ peer = StoreHandle(btree_open("B", StoreDisk(ShallowTree)))
  /\ hist = [Hist0(EmptyMap, ShallowTree)
             EXCEPT !.trav = {ShallowKeys[i] : i \in 1..Len(ShallowKeys)}]
  /\ pc = Idle

\* Dels of the keys the tree holds and puts of keys it has lost, without a
\* transaction, each committed as it returns; every system call succeeds.
NextCollapse ==
  \/ \E i \in 1..Len(ShallowKeys) :
       /\ hist.calls < CollapseCalls /\ ShallowKeys[i] \in hist.trav
       /\ BranchDel(ShallowKeys[i])
  \/ \E i \in 1..ShallowPuts :
       /\ hist.calls < CollapseCalls /\ ShallowKeys[i] \notin hist.trav
       /\ BranchPut(ShallowKeys[i], <<7>>)

SpecCollapse == InitShallow /\ [][NextCollapse]_vars

\* The number of pages from page pgno down its first slots to a leaf.
RECURSIVE Height(_, _, _)
Height(file, pgno, fuel) ==
  LET p == FilePage(file, pgno)
  IN  IF pgno = P_INVALID \/ fuel = 0 \/ p = GarbagePage THEN 0
      ELSE IF IS_BRANCH(p) /\ NUMKEYSP(p) > 0
      THEN 1 + Height(file, NODEPTRP(p, 0).p, fuel - 1)
      ELSE 1

\* BT_FIRST of a new cursor and the get of every key fail with ENOENT.
NothingFound(s) ==
  /\ \A k \in AllKeys :
       With(Do("btree_txn_get", <<s, "null", k>>), LAMBDA g :
         g.rc = BT_FAIL /\ g.errno = "ENOENT")
  /\ With(Do("btree_cursor_get", <<Do("btree_txn_cursor_open", <<[s EXCEPT !.cur = NoCursor], "null">>),
                                   <<>>, "BT_FIRST">>), LAMBDA c :
       c.rc = BT_FAIL /\ c.errno = "ENOENT")

BranchRootCollapsed ==
  /\ hist.last.op = "del" /\ hist.last.rc = BT_SUCCESS
  /\ hist.last.pre.depth = 2 /\ bt.meta.depth = 1

---------------------------------------------------------------------------
(* The meta of the handle after an abort *)

\* The meta of the last valid meta page of the file: what the last commit
\* wrote.  A file without one has the meta of a handle just opened.
CommittedMeta(file) ==
  IF MetaPages(file) = {} THEN NewHandle("A").meta
  ELSE file[SetMax(MetaPages(file)) + 1].meta

\* root, revisions, depth, entries and the page counters of a meta.
Counters(meta) ==
  [f \in {"root", "revisions", "depth", "entries", "branch_pages", "leaf_pages",
          "overflow_pages"} |-> meta[f]]

\* C34: after the abort of a write transaction the meta of the handle has
\* the root, revisions, depth, entries and page counters of the last
\* committed meta.
C34_AbortKeepsMeta ==
  hist.last.op = "abort" /\ hist.last.who = "A" /\ hist.last.t = "w"
  => Counters(bt.meta) = Counters(CommittedMeta(disk.file))

\* The same after a put or del without a transaction that failed and was
\* aborted by the call.
FailedCallKeepsMeta ==
  hist.last.op \in {"put", "del"} /\ hist.last.t = "null" /\ hist.last.rc = BT_FAIL
  => Counters(bt.meta) = Counters(CommittedMeta(disk.file))

\* A write transaction whose puts and dels all succeeded and changed what
\* it held was aborted, and the meta of the handle still has a count the
\* transaction had changed.
C34_Witness ==
  /\ hist.last.op = "abort" /\ hist.last.who = "A" /\ hist.last.t = "w"
  /\ hist.last.pre.dirty # <<>> /\ hist.wmap # hist.map
  /\ bt.ub = {}
  /\ Counters(bt.meta) # Counters(CommittedMeta(disk.file))
  /\ bt.meta.root = CommittedMeta(disk.file).root
  /\ bt.meta.revisions = CommittedMeta(disk.file).revisions

\* Root and revisions of the handle are those of the last committed meta
\* after every abort of a write transaction.
AbortKeepsRoot ==
  hist.last.op = "abort" /\ hist.last.who = "A" /\ hist.last.t = "w"
  => /\ bt.meta.root = CommittedMeta(disk.file).root
     /\ bt.meta.revisions = CommittedMeta(disk.file).revisions

---------------------------------------------------------------------------
(* The prefix of the leaves *)

PrefixCalls == 2

\* The bytes every key of SpecPrefix begins with; its length stands for
\* the 10 bytes of the larger page.
Shared == <<5, 5>>

SharedKeys ==
  << <<5, 5, 1, 1>>, <<5, 5, 1, 2>>, <<5, 5, 1, 3>>, <<5, 5, 2, 1>>, <<5, 5, 2, 2>>,
     <<5, 5, 2, 3>>, <<5, 5, 3, 1>>, <<5, 5, 3, 2>>, <<5, 5, 3, 3>> >>

\* Keys that are put into the tree of SharedKeys.
SharedPuts == {<<5, 5, 1>>, <<5, 5, 2>>, <<5, 5, 2, 2, 2>>, <<5, 5, 3>>, <<5, 5, 4>>}

\* A branch root over four leaves.
SharedTree == RunPuts(btree_open("A", NoFile), Fill(SharedKeys, <<7>>))

InitShared ==
  /\ disk = StoreDisk(SharedTree)
  /\ bt = StoreHandle(SharedTree)
  /\ peer = StoreHandle(btree_open("B", StoreDisk(SharedTree)))
  /\ hist = [Hist0(EmptyMap, SharedTree)
             EXCEPT !.trav = {SharedKeys[i] : i \in 1..Len(SharedKeys)}]
  /\ pc = Idle

\* Puts and dels of keys that begin with Shared, without a transaction,
\* each committed as it returns; every system call succeeds.
NextPrefix ==
  \/ \E k \in SharedPuts : hist.calls < PrefixCalls /\ BranchPut(k, <<7>>)
  \/ \E i \in 1..Len(SharedKeys) : hist.calls < PrefixCalls /\ BranchDel(SharedKeys[i])

SpecPrefix == InitShared /\ [][NextPrefix]_vars

\* The leaf the descent for key k ends in, as btree_search_page leaves it:
\* its page number and the prefix find_common_prefix gave it.
LeafFor(s, k) ==
  With(Do("btree_search_page", <<s, "null", k, FALSE, FALSE>>), LAMBDA f :
    [ok |-> f.rc = BT_SUCCESS /\ f.ub = {},
     pgno |-> IF f.rc = BT_SUCCESS THEN MP(f, f.r).pgno ELSE P_INVALID,
     prefix |-> IF f.rc = BT_SUCCESS THEN MP(f, f.r).prefix ELSE <<>>])

\* The smallest and the largest of a set of keys.
FirstKey(K) == CHOOSE k \in K : \A j \in K : bt_cmp(k, j, <<>>) <= 0
LastKey(K) == CHOOSE k \in K : \A j \in K : bt_cmp(k, j, <<>>) >= 0

\* A put or del has succeeded and left a tree of more than one leaf.
SharedCase ==
  /\ hist.last.op \in {"put", "del"} /\ hist.last.rc = BT_SUCCESS /\ bt.ub = {}
  /\ bt.meta.depth > 1

\* C35: when every key begins with Shared and the committed tree has more
\* than one leaf, every leaf has a prefix at least as long as Shared, the
\* leftmost and the rightmost leaf included.
C35_EveryLeafPrefix ==
  SharedCase
  => \A k \in TreeKeysOf(Load(bt, disk)) :
       Len(LeafFor(Load(bt, disk), k).prefix) >= Len(Shared)

\* C35, amended: every leaf between the leftmost and the rightmost leaf
\* has a prefix that begins with Shared; the leftmost and the rightmost
\* leaf have the empty prefix.
C35_InnerLeafPrefix ==
  SharedCase
  => LET s == Load(bt, disk)
         keys == TreeKeysOf(s)
         first == LeafFor(s, FirstKey(keys)).pgno
         last == LeafFor(s, LastKey(keys)).pgno
     IN  \A k \in keys :
           LET leaf == LeafFor(s, k)
           IN  /\ leaf.ok
               /\ leaf.pgno \in {first, last} => leaf.prefix = <<>>
               /\ leaf.pgno \notin {first, last} => IsPrefixOf(Shared, leaf.prefix)

\* A put or del has left a tree of at least four leaves that holds the
\* keys put and not deleted: two of the leaves lie between the leftmost
\* and the rightmost leaf and have a prefix that begins with Shared, the
\* leftmost has the empty prefix.
C35_Witness ==
  /\ SharedCase
  /\ TreeKeysOf(Load(bt, disk)) = hist.trav
  /\ LET s == Load(bt, disk)
         first == LeafFor(s, FirstKey(hist.trav)).pgno
         last == LeafFor(s, LastKey(hist.trav)).pgno
     IN  /\ first # last
         /\ LeafFor(s, FirstKey(hist.trav)).prefix = <<>>
         /\ \E k, j \in hist.trav :
              /\ {LeafFor(s, k).pgno, LeafFor(s, j).pgno} \cap {first, last} = {}
              /\ LeafFor(s, k).pgno # LeafFor(s, j).pgno
              /\ IsPrefixOf(Shared, LeafFor(s, k).prefix)
              /\ IsPrefixOf(Shared, LeafFor(s, j).prefix)

---------------------------------------------------------------------------
(* The size from which a value goes to overflow pages *)

FitCalls == 3

\* Values one byte short of PSIZE / BT_MINKEYS bytes, of just as many, and
\* of one more.
EdgeValues ==
  {[i \in 1..n |-> 9] : n \in {PSIZE \div BT_MINKEYS - 1, PSIZE \div BT_MINKEYS,
                               PSIZE \div BT_MINKEYS + 1}}

\* Committed puts of values around the threshold, and deletes.
NextFit ==
  \/ \E k \in BigKeys, v \in EdgeValues : hist.calls < FitCalls /\ PutBig(k, v)
  \/ \E k \in BigKeys : hist.calls < FitCalls /\ DelBig(k)

SpecFit == Init /\ [][NextFit]_vars

\* The page of the leaf the descent for key k ends in and the node of k
\* in it; a page of garbage and GarbageNode when the key is not found.
NodeFor(s, k) ==
  With(Do("btree_search_page", <<s, "null", k, FALSE, FALSE>>), LAMBDA f :
  IF f.rc # BT_SUCCESS \/ f.r = NULL THEN [page |-> GarbagePage, node |-> GarbageNode]
  ELSE With(Do("btree_search_node", <<f, f.r, k>>), LAMBDA n :
       IF ~n.null /\ n.exact
       THEN [page |-> PG(f, f.r), node |-> NODEPTR(f, f.r, n.ki)]
       ELSE [page |-> GarbagePage, node |-> GarbageNode]))

\* The bytes the nodes of leaf page p take by the count of bt_leaf_size,
\* each with the size of its value.
RECURSIVE LeafBytes(_, _)
LeafBytes(p, i) ==
  IF i >= NUMKEYSP(p) THEN 0
  ELSE bt_leaf_size(NODEPTRP(p, i).key, [size |-> NODEPTRP(p, i).p, data |-> <<>>])
       + LeafBytes(p, i + 1)

\* The node is flagged F_BIGDATA and holds the number of an overflow page
\* of the file, or it is not flagged and holds the bytes v.
StoredAs(file, node, v, big) ==
  /\ F_ISSET(node.flags, F_BIGDATA) <=> big
  /\ node.p = Len(v)
  /\ big => Len(node.data) = 1 /\ OverflowPresent(file, node.data[1], Len(v))
  /\ ~big => node.data = v

\* The space of leaf page p is what bt_leaf_size counts for its nodes.
LeafAccounted(p) ==
  /\ p.lower = PAGEHDRSZ + SZ_INDX * NUMKEYSP(p)
  /\ p.upper = PSIZE - (LeafBytes(p, 0) - SZ_INDX * NUMKEYSP(p))

\* C36: a put stores its value on overflow pages exactly when the size of
\* the value exceeds PSIZE / BT_MINKEYS, and the space the leaf has given
\* to its nodes is what bt_leaf_size counts for them.
C36_OverflowAbove ==
  hist.last.op = "put" /\ hist.last.rc = BT_SUCCESS /\ bt.ub = {}
  => LET f == NodeFor(Load(bt, disk), hist.last.key)
     IN  /\ StoredAs(disk.file, f.node, hist.last.val,
                     Len(hist.last.val) > PSIZE \div BT_MINKEYS)
         /\ LeafAccounted(f.page)

\* C36, amended: a put stores its value on overflow pages exactly when the
\* size of the value is PSIZE / BT_MINKEYS or more, and the space the leaf
\* has given to its nodes is what bt_leaf_size counts for them.
C36_OverflowFrom ==
  hist.last.op = "put" /\ hist.last.rc = BT_SUCCESS /\ bt.ub = {}
  => LET f == NodeFor(Load(bt, disk), hist.last.key)
     IN  /\ StoredAs(disk.file, f.node, hist.last.val,
                     Len(hist.last.val) >= PSIZE \div BT_MINKEYS)
         /\ LeafAccounted(f.page)

\* A value of exactly PSIZE / BT_MINKEYS bytes was put and is on an
\* overflow page, in a leaf that also holds a value of one byte less in
\* the leaf itself.
C36_Witness ==
  /\ hist.last.op = "put" /\ hist.last.rc = BT_SUCCESS /\ bt.ub = {}
  /\ Len(hist.last.val) = PSIZE \div BT_MINKEYS
  /\ LET f == NodeFor(Load(bt, disk), hist.last.key)
     IN  /\ F_ISSET(f.node.flags, F_BIGDATA)
         /\ \E i \in 0..NUMKEYSP(f.page) - 1 :
              /\ NODEPTRP(f.page, i).p = PSIZE \div BT_MINKEYS - 1
              /\ ~F_ISSET(NODEPTRP(f.page, i).flags, F_BIGDATA)

---------------------------------------------------------------------------
(* A handle that has seen the tombstone *)

\* C37: when a call of the other process has failed with ESTALE and the
\* replaced file has not changed, its next btree_txn_begin or call without
\* a transaction fails with ESTALE too.
C37_StaleIsSticky ==
  [][(/\ hist.last.who = "B" /\ hist.last.rc = BT_FAIL /\ hist.last.errno = "ESTALE"
      /\ hist'.last.who = "B" /\ hist'.last.op \in {"begin", "get", "put", "del"}
      /\ disk'.file = disk.file)
     => hist'.last.rc = BT_FAIL /\ hist'.last.errno = "ESTALE"]_vars

\* The other process has read the file up to its tombstone, which failed
\* with ESTALE, and a later btree_txn_begin or get of it on the unchanged
\* replaced file has succeeded.
C37_Witness ==
  /\ hist.compacted /\ TombstoneLast(disk.file)
  /\ peer.size = FileSize(disk)
  /\ ~F_ISSET(peer.meta.flags, BT_TOMBSTONE)
  /\ hist.last.who = "B" /\ hist.last.op \in {"begin", "get"}
  /\ hist.last.rc = BT_SUCCESS

\* The compacting handle, whose meta is the tombstone, fails with ESTALE
\* in every btree_txn_begin and call without a transaction after a
\* successful btree_compact.
StaleIsStickyForCompactor ==
  [][(/\ hist.compacted /\ TombstoneLast(disk.file)
      /\ F_ISSET(bt.meta.flags, BT_TOMBSTONE)
      /\ hist'.last.who = "A" /\ hist'.last.op \in {"begin", "get", "put", "del"})
     => hist'.last.rc = BT_FAIL /\ hist'.last.errno = "ESTALE"]_vars

---------------------------------------------------------------------------
(* The pages a cursor holds *)

\* btree_txn_abort(txn) of the write transaction while the cursor opened
\* on it is still open.
AbortUnderCursor ==
  /\ CanCall
  /\ ~bt.txn.null
  /\ bt.cur.open /\ bt.cur.txn = "w"
  /\ With(Ok(Do("btree_txn_abort", <<Load(bt, disk), "w">>)), LAMBDA s :
     Done("A", s, [hist EXCEPT !.last = [Call("abort", "A", "w", <<>>, NoVal, AllOk, s)
                                          EXCEPT !.pre = AbortPre]], 0))

\* A write transaction with puts, a cursor on it, and its end by commit or
\* abort, before or after the cursor is closed.
NextPin ==
  \/ InBudget /\ Begin(FALSE)
  \/ \E k \in Keys, v \in Values : InBudget /\ Put("w", k, v, AllOk)
  \/ InBudget /\ ~bt.txn.null /\ CursorOpen("w")
  \/ \E op \in {"BT_FIRST", "BT_NEXT"} : InBudget /\ bt.ub = {} /\ CursorGet(op, 0)
  \/ InBudget /\ bt.ub = {} /\ CursorClose
  \/ InBudget /\ Commit(AllOk)
  \/ InBudget /\ Abort("w")
  \/ InBudget /\ AbortUnderCursor

SpecPin == Init /\ [][NextPin]_vars

\* The struct mpage of every frame of the stack of the open cursor is
\* allocated, counts a reference and is in the page cache.
FramesHeld(h) ==
  \A i \in 1..Len(h.cur.stack) :
    LET id == h.cur.stack[i].mpage
    IN  /\ id \in DOMAIN h.heap
        /\ h.heap[id].ref > 0
        /\ \E q \in DOMAIN h.cache : h.cache[q] = id

\* C38: no call frees or takes out of the cache a page that a frame of
\* the stack of an open cursor holds, btree_txn_abort of the write
\* transaction of the cursor included.
C38_PinnedNeverFreed ==
  bt.cur.open => FramesHeld(bt)

\* btree_txn_abort has freed the dirty leaf that the open cursor of the
\* aborted transaction holds.
C38_Witness ==
  /\ hist.last.op = "abort" /\ hist.last.who = "A" /\ hist.last.t = "w"
  /\ bt.cur.open /\ bt.cur.txn = "w" /\ Len(bt.cur.stack) > 0
  /\ hist.last.pre.ub = {}
  /\ \E i \in 1..Len(bt.cur.stack) :
       /\ bt.cur.stack[i].mpage \notin DOMAIN bt.heap
       /\ \E j \in 1..Len(hist.last.pre.dirty) :
            hist.last.pre.dirty[j] = bt.cur.stack[i].mpage

\* Every call but btree_txn_abort under an open cursor leaves the pages of
\* the cursor allocated, referenced and cached.
PinnedKeptByOtherCalls ==
  [][(bt.ub = {} /\ (bt.cur.open => FramesHeld(bt))
      /\ ~(hist'.last.op = "abort" /\ bt.cur.open /\ bt.cur.txn = "w"))
     => (bt'.cur.open => FramesHeld(bt'))]_vars

---------------------------------------------------------------------------
(* The pages that are written to *)

\* The struct mpages of handle h whose page differs from the page they
\* had in handle g.
Rewritten(g, h) ==
  {id \in DOMAIN g.heap \cap DOMAIN h.heap : g.heap[id].page # h.heap[id].page}

\* Page id of handle h is dirty and on the dirty queue of the write
\* transaction.
OnDirtyQueue(h, id) ==
  /\ h.heap[id].dirty # 0
  /\ ~h.txn.null
  /\ \E i \in 1..Len(h.txn.dirty_queue) : h.txn.dirty_queue[i] = id

\* C39: a page whose bytes a call has changed is on the dirty queue of the
\* write transaction, or the call has committed it and the file holds it;
\* and every page of the cache that is not dirty is the page the file
\* holds under its number.
C39_OnlyDirtyMutated ==
  [][/\ \A id \in Rewritten(bt, bt') :
          \/ OnDirtyQueue(bt', id)
          \/ /\ bt'.heap[id].dirty = 0
             /\ bt'.heap[id].pgno < Len(disk'.file)
             /\ disk'.file[bt'.heap[id].pgno + 1] = bt'.heap[id].page
     /\ CacheIsFile(bt', disk')]_vars

\* The same where every system call succeeds or the failure is not that
\* of the write of a meta page.
OnlyDirtyMutatedButMeta ==
  [][(CacheIsFile(bt, disk) /\ hist'.last.io.meta # "fail")
     => /\ \A id \in Rewritten(bt, bt') :
             \/ OnDirtyQueue(bt', id)
             \/ /\ bt'.heap[id].dirty = 0
                /\ bt'.heap[id].pgno < Len(disk'.file)
                /\ disk'.file[bt'.heap[id].pgno + 1] = bt'.heap[id].page
        /\ CacheIsFile(bt', disk')]_vars

\* A page of the cache is not dirty and the file does not hold it.
C39_Witness ==
  /\ bt.ub = {}
  /\ hist.last.op \in {"put", "del"} /\ hist.last.rc = BT_FAIL
  /\ \E id \in DOMAIN bt.heap :
       /\ bt.heap[id].dirty = 0
       /\ \E q \in DOMAIN bt.cache : bt.cache[q] = id
       /\ bt.heap[id].pgno >= Len(disk.file)

---------------------------------------------------------------------------
(* The slot of the write transaction *)

SlotCalls == 4

InSlotBudget == hist.calls < SlotCalls

\* Write and read-only transactions that end in every way: commits that
\* succeed, fail in a write or are rejected, aborts, puts without a
\* transaction that fail, and a btree_txn_begin on a compacted file; the
\* other process begins and aborts write transactions.
NextSlot ==
  \/ \E rdonly \in BOOLEAN : InSlotBudget /\ Begin(rdonly)
  \/ \E k \in Keys, v \in {<<7>>, WideValue} : InSlotBudget /\ Put("w", k, v, AllOk)
  \/ \E k \in Keys, io \in IoCases : InSlotBudget /\ Put("null", k, <<7>>, io)
  \/ \E io \in IoCases : InSlotBudget /\ Commit(io)
  \/ InSlotBudget /\ ~bt.rtxn.null /\ CommitOf("r")
  \/ \E t \in {"w", "r"} : InSlotBudget /\ Abort(t)
  \/ InSlotBudget /\ bt.txn.null /\ Compact("ok")
  \/ InSlotBudget /\ PeerBegin(FALSE)
  \/ InSlotBudget /\ PeerAbort("w")

SpecSlot == Init /\ [][NextSlot]_vars

\* Handle h has no write transaction and does not hold the lock of the
\* file d.
SlotFree(h, d) == h.txn.null /\ d.lock # h.me

\* C40: after a commit or an abort of the write transaction, after a put
\* or del without a transaction and after a btree_txn_begin that failed,
\* whatever they returned, the handle has no write transaction and does
\* not hold the lock, and a btree_txn_begin for writing that finds the
\* slot and the lock free does not fail with EBUSY; the abort and the
\* commit of a read-only transaction leave the write transaction and the
\* lock as they are.
C40_WriterSlotReleased ==
  [][hist'.last.who = "A" =>
     /\ hist'.last.op \in {"commit", "abort"} /\ hist'.last.t = "w"
        => SlotFree(bt', disk')
     /\ hist'.last.op \in {"put", "del"} /\ hist'.last.t = "null" /\ bt.txn.null
        => SlotFree(bt', disk')
     /\ hist'.last.op = "begin" /\ hist'.last.rc = BT_FAIL /\ bt.txn.null
        => SlotFree(bt', disk')
     /\ hist'.last.op = "begin" /\ hist'.last.t = "w" /\ SlotFree(bt, disk) /\ disk.lock = ""
        => ~(hist'.last.rc = BT_FAIL /\ hist'.last.errno = "EBUSY")
     /\ hist'.last.op \in {"commit", "abort"} /\ hist'.last.t = "r"
        => bt'.txn = bt.txn /\ disk'.lock = disk.lock /\ bt'.rtxn.null]_vars

\* A commit of the write transaction has failed in the write of its pages
\* or of its meta page, and the handle has no write transaction and no
\* lock.
C40_Witness ==
  /\ hist.last.who = "A" /\ hist.last.op = "commit" /\ hist.last.t = "w"
  /\ hist.last.rc = BT_FAIL /\ hist.last.io # AllOk
  /\ SlotFree(bt, disk) /\ disk.lock = ""

\* A btree_txn_begin for writing has taken the lock and failed in
\* btree_read_meta, and the lock is free again.
BeginFailedUnderLock ==
  /\ hist.last.who = "A" /\ hist.last.op = "begin" /\ hist.last.t = "w"
  /\ hist.last.rc = BT_FAIL /\ hist.last.errno = "ESTALE"
  /\ SlotFree(bt, disk) /\ disk.lock = ""

\* A read-only transaction has ended while the write transaction was
\* active, which still is.
ReaderEndedUnderWriter ==
  /\ hist.last.who = "A" /\ hist.last.op \in {"commit", "abort"} /\ hist.last.t = "r"
  /\ ~bt.txn.null /\ disk.lock = bt.me

\* A commit of a write transaction marked with an error was rejected and
\* the slot is free.
RejectedCommitFreesSlot ==
  /\ hist.last.who = "A" /\ hist.last.op = "commit" /\ hist.last.t = "w"
  /\ hist.last.rc = BT_FAIL /\ hist.last.errno = "EINVAL" /\ hist.last.io = AllOk
  /\ SlotFree(bt, disk)

====
